---------------------------- MODULE Spec2Model ----------------------------
(***************************************************************************)
(* Hydro-Hero firmware (src/Hydro-Hero.ino): the acquisition-and-detection *)
(* pipeline as a state machine.                                            *)
(*                                                                         *)
(* Units.  Time is millis() counted in ticks of 4 ms: every duration the   *)
(* firmware compares a clock difference against is a multiple of 4 ms, and *)
(* the 32-bit millisecond counter is a 30-bit tick counter.  Ms(x) is x    *)
(* milliseconds in ticks.  Every float of the firmware is kept in          *)
(* thousandths of its unit (mL/min, m$, milli-degrees, ...) except volumes *)
(* (litres, the five totals), which are kept in pulses, i.e. in units of   *)
(* 1/pulsesPerLitre litre, so that litres = pulseCount / pulsesPerLitre is *)
(* exact.  A message is the tuple of its text and the numbers formatted    *)
(* into it, each as String() prints it (two decimals for a float).         *)
(***************************************************************************)
EXTENDS Integers, Sequences, FiniteSets, TLC

VARIABLES
    now,              \* millis(), in ticks
    \* flow measurement
    pulseCount,       \* flow.pulseCount (volatile, shared with the ISR)
    intrAttached,     \* pulseCounter is attached to FLOW_SENSOR_PIN
    ufPc,             \* position of the main context inside updateFlowData
    ufNow,            \* updateFlowData: local now
    ufDelta,          \* updateFlowData: local deltaTime
    ufLitres,         \* updateFlowData: local litres (in pulses)
    lastUpdate,       \* updateFlowData: static lastUpdate
    flowRate,         \* flow.flowRate, mL/min
    instantaneousFlow,\* flow.instantaneousFlow, uL/s
    totalLitres, dailyLitres, weeklyLitres, monthlyLitres, yearlyLitres,
    edgesProduced,    \* history: falling edges the sensor has produced
    drainedTotal,     \* history: sum of the pulse counts updateFlowData used
    ufDiscarded,      \* history: the pulseCount value the last reset overwrote
    \* alerts, events, actuators
    alerts,           \* Alert alerts[MAX_ALERTS]
    alertIndex,
    events,           \* Event events[MAX_EVENTS]
    eventIndex,
    valve,            \* level of VALVE_RELAY_PIN: TRUE = HIGH = open
    tones,            \* history: playAlertTone commands that sounded
    notifications,    \* history: sendNotification commands
    calls,            \* history: the addAlert calls of the last handler run
    opCommands,       \* history: operator commands given
    alertCount,       \* history: non-suppressed addAlert insertions
    eventCount,       \* history: logEvent calls
    \* checkAlerts
    leakStartTime, leakChecking, lastUsageTime, lastFlowRate, lastCheckTime,
    caRuns,           \* history: checkAlerts calls
    bandSince,        \* history: first dispatch of the current unbroken run
                      \* of in-band observations, -1 when the last was not
    episodeLeaks,     \* history: Leak insertions in the current run
    bandBreaks,       \* history: running leak timers a dispatch has reset
    \* snapshots the alert engine reads
    config,           \* SystemConfig
    timeSynced,       \* timeInfo.timeSynced
    temperature,      \* waterQuality.temperature, milli-degrees F
    pH,               \* waterQuality.pH, thousandths
    dailyCost, monthlyCost, \* billing.dailyCost, billing.monthlyCost, m$
    budgetAlert,      \* billing.budgetAlert
    memoryUsage,      \* health.memoryUsage, thousandths of a KB
    wifiSignal,       \* health.wifiSignal, dBm
    \* updateStatistics
    sampleCount, averageFlow, peakFlow, minFlow,   \* stats.*
    hourlyUsage, currentHour, \* flow.hourlyUsage (mL), flow.currentHour
    tmHour,           \* timeInfo.timeinfo.tm_hour
    flowBuffer, bufferIndex, \* static flowBuffer[100], bufferIndex
    flowPercentiles,  \* stats.flowPercentiles
    dailyTotals, dayIndex, lastDayUpdate, \* statics of the 7-day trend
    weeklyAverage, dailyAverage, \* stats.*, in pulses
    usageTrend,       \* stats.usageTrend, percent
    \* updateBilling
    lastBillingUpdate, yearlyCost, currentCost, \* m$
    carbonFootprint,  \* g CO2
    \* loop(): the period resets
    lastDayReset, dayCount, monthDayCount,
    boundaries,       \* history: day boundaries the loop has acted on
    \* syncTime
    lastSync,         \* timeInfo.lastSync
    \* updateZoneData
    zones,            \* Zone zones[]; zoneCount = 5
    \* updatePredictions
    last7Days, dayPtr, lastPrediction, \* statics: history in pulses
    tmMon,            \* timeInfo.timeinfo.tm_mon
    predictedDailyUsage, predictedWeeklyUsage, predictedMonthlyUsage,
                      \* predictions.*, hundredths of a pulse
    seasonalFactor,   \* predictions.seasonalFactor, thousandths
    confidenceScore,  \* predictions.confidenceScore, thousandths of a
                      \* percent, when it is a number
    confidenceNaN,    \* predictions.confidenceScore is NaN
    \* scheduler
    tasks,            \* ScheduledTask tasks[]; taskCount = Len(tasks)
    schedPc,          \* position of the main context in loop() and in
                      \* runScheduledTasks
    schedNow,         \* runScheduledTasks: local now
    schedI,           \* runScheduledTasks: local i, counted from 1
    runLog,           \* history: tasks whose function this pass has called
    passStart,        \* history: tasks[] when this pass started
    lastRanAt,        \* history: per task, pass time of its last call
    prevRanAt,        \* history: per task, pass time of the call before
    passes            \* history: passes started

pulseVars == <<pulseCount, intrAttached, ufPc, ufNow, ufDelta, ufLitres,
               lastUpdate, instantaneousFlow, edgesProduced,
               drainedTotal, ufDiscarded>>
totalVars == <<totalLitres, dailyLitres, weeklyLitres, monthlyLitres,
               yearlyLitres>>
storeVars == <<alerts, alertIndex, events, eventIndex, valve, tones,
               notifications, calls, alertCount, eventCount>>
caVars == <<leakStartTime, leakChecking, lastUsageTime, lastFlowRate,
            lastCheckTime, caRuns, bandSince, episodeLeaks, bandBreaks>>
healthVars == <<memoryUsage, wifiSignal>>
qualityVars == <<temperature, pH>>
billingVars == <<dailyCost, monthlyCost, budgetAlert>>
statVars == <<sampleCount, averageFlow, peakFlow, minFlow, hourlyUsage,
              currentHour, tmHour, flowBuffer, bufferIndex, flowPercentiles,
              dailyTotals, dayIndex, lastDayUpdate, weeklyAverage,
              dailyAverage, usageTrend>>
costVars == <<lastBillingUpdate, yearlyCost, currentCost, carbonFootprint>>
resetVars == <<lastDayReset, dayCount, monthDayCount, boundaries>>
zoneVars == <<zones>>
syncVars == <<lastSync>>
predVars == <<last7Days, dayPtr, lastPrediction, tmMon, predictedDailyUsage,
              predictedWeeklyUsage, predictedMonthlyUsage, seasonalFactor,
              confidenceScore, confidenceNaN>>
schedVars == <<schedPc, schedNow, schedI, runLog, passStart, lastRanAt,
               prevRanAt, passes>>

\* What the flow-measurement steps and what the alert-side steps leave alone
notPulseData == <<storeVars, opCommands, caVars, config, timeSynced,
                  healthVars, qualityVars, billingVars, statVars, costVars,
                  resetVars, predVars, zoneVars, syncVars>>
notPulse == <<notPulseData, tasks, schedVars>>
notAlertData == <<pulseVars, totalVars, config, timeSynced, qualityVars,
                  statVars, costVars, resetVars, predVars, zoneVars, syncVars>>
notAlert == <<notAlertData, schedVars>>

vars == <<now, pulseVars, flowRate, totalVars, storeVars, opCommands,
          caVars, config, timeSynced, healthVars, qualityVars, billingVars,
          statVars, costVars, resetVars, predVars, zoneVars, syncVars, tasks,
          schedVars>>

-----------------------------------------------------------------------------
(* Program constants *)

\* x milliseconds in clock ticks
Ms(x) == x \div 4

UPDATE_INTERVAL == Ms(1000)
MAX_EVENTS == 100
MAX_ALERTS == 50
PulsesPerLitre == 450

\* AlertThresholds, compiled defaults
maxFlowThreshold == 10000               \* 10.0 L/min
leakThreshold == 200                    \* 0.2 L/min
suddenDropThreshold == 5000             \* 5.0 percent
noUsageThreshold == 24000               \* 24.0 hours
temperatureThreshold == 80000           \* 80.0 degrees F
anomalyWindow == Ms(3600000)            \* 1 hour

\* BillingInfo.budget: 100.0 $; BillingInfo.ratePer1000L: 2.50 $
budget == 100000
ratePer1000L == 2500

\* 24 hours
Day == Ms(86400000)

\* Greatest common divisor of two positive integers
RECURSIVE GCD(_, _)
GCD(a, b) == IF b = 0 THEN a ELSE GCD(b, a % b)

\* p * n / d for p >= 0, n > 0, d > 0: exact (truncated) when the product
\* fits a machine integer, otherwise with n and d shortened by decimal
\* digits until it does, which keeps the precision of a float.
RECURSIVE ScaleFit(_, _, _)
ScaleFit(p, n, d) ==
    IF p <= 2000000000 \div n
       THEN (p * n) \div d
       ELSE IF n < 10 \/ d < 10
               THEN (p \div d) * n
               ELSE ScaleFit(p, n \div 10, d \div 10)

\* p * num / den, the fraction reduced first
Scale(p, num, den) ==
    LET g == GCD(num, den)
    IN  ScaleFit(p, num \div g, den \div g)

\* String(x) of a float x >= 0 kept in thousandths: two decimals.
Round2(x) == (x + 5) \div 10

(* Bounds of the model *)

MaxEdges == 3      \* sensor edges produced in a run of the pulse model
MaxPulseSecs == 2  \* horizon of the pulse model, in seconds after boot
MaxCommands == 2   \* operator commands in a run
MaxAlertSteps == 2 \* CheckAlerts intervals in a run of the alert model,
                   \* beside one leak window
MaxBufferMinutes == 234 \* horizon of the buffer model, minutes after boot
BurstPulses == 4455     \* sensor edges per minute in the buffer model
MaxSchedSecs == 10      \* horizon of the scheduler model, seconds after boot
MaxPasses == 3          \* dispatch passes in a run of the scheduler model
MaxDays == 31           \* horizon of the reset model, days after boot
DayPulses == 900        \* sensor edges per clock step in the reset model
MaxResets == 1          \* serial "reset" commands in a run
MaxRuleSteps == 3        \* CheckAlerts intervals in a run of the rule model
MaxValveSteps == 1       \* CheckAlerts intervals in a run of the valve model,
                        \* beside one leak window and one day
DrainPulses == 5         \* sensor edges per loop delay in the drain model
MaxFlowSecs == 3         \* horizon of the short steps of the flow model,
                        \* seconds after boot
MaxPredictHours == 8     \* recomputations in a run of the prediction model
HourPulses == 45         \* sensor edges per hour in the prediction model
MaxWatchSteps == 1       \* CheckAlerts intervals in a run of the watch
                        \* model, beside one minute more than that and
                        \* one no-usage period
MaxZoneSteps == 2        \* UpdateZones intervals in a run of the zone model,
                        \* beside one leak window of a zone
MaxSyncHours == 3        \* horizon of the sync model, hours after boot
MaxWrapSecs == 40       \* horizon of the wrap model, seconds after the wrap
MaxFreeSamples == 3     \* samples of any rate at the start of the
                        \* statistics model
MaxStatSamples == 201   \* horizon of the statistics model, samples
MaxLiveSteps == 2       \* short steps of the clock after each mark of the
                        \* liveness model
MaxDaySecs == 35         \* horizon of the day-boundary model, seconds after
                        \* the first day

-----------------------------------------------------------------------------
(* Task scheduler: registration and the dispatch test *)

\* addTask(name, interval, function): lastRun = 0, enabled = true
addTask(ts, name, interval) ==
    Append(ts, [name |-> name, interval |-> interval, lastRun |-> 0,
                enabled |-> TRUE])

\* setup(): the twelve addTask calls, in order
RegisteredTasks ==
    LET t1 == addTask(<<>>, "UpdateFlow", UPDATE_INTERVAL)
        t2 == addTask(t1, "CheckAlerts", Ms(5000))
        t3 == addTask(t2, "UpdateStats", Ms(30000))
        t4 == addTask(t3, "UpdatePredictions", Ms(60000))
        t5 == addTask(t4, "UpdateWaterQuality", Ms(30000))
        t6 == addTask(t5, "UpdateBilling", Ms(60000))
        t7 == addTask(t6, "CheckSystemHealth", Ms(10000))
        t8 == addTask(t7, "UpdateLED", Ms(100))
        t9 == addTask(t8, "SaveHistory", Ms(10000))
        t10 == addTask(t9, "SyncTime", Ms(3600000))
        t11 == addTask(t10, "UpdateZones", Ms(15000))
    IN  addTask(t11, "BackupData", Ms(3600000))

\* Index of the task registered under a name
TaskId(name) == CHOOSE i \in 1..Len(RegisteredTasks) :
                    RegisteredTasks[i].name = name

\* millis() is an unsigned long: it counts modulo 2^32 ms, 2^30 ticks
MillisWrap == 2^30

\* now - tasks[i].lastRun, an unsigned long subtraction
ElapsedSigned(n, lastRun) == n - lastRun
Elapsed(n, lastRun) == (n - lastRun) % MillisWrap

\* runScheduledTasks: the test that dispatches task t at pass time n
DueLate(t, n) == t.enabled /\ Elapsed(n, t.lastRun) > t.interval
Due(t, n) == t.enabled /\ Elapsed(n, t.lastRun) >= t.interval

\* runScheduledTasks: tasks[i].lastRun = now after the call
MarkRunCatchUp(ts, i, n) == [ts EXCEPT ![i].lastRun = @ + ts[i].interval]
MarkRun(ts, i, n) == [ts EXCEPT ![i].lastRun = n]

\* A pass at the current time, taken as one step per dispatched task: the
\* scan has reached the task registered as name when that task is due and,
\* of the tasks M a specification dispatches, none registered before it is
\* still due.
TurnAlone(name, M) ==
    /\ Due(tasks[TaskId(name)], now)
    /\ \A m \in M \ {name} : ~Due(tasks[TaskId(m)], now)
Turn(name, M) ==
    /\ Due(tasks[TaskId(name)], now)
    /\ \A m \in M : TaskId(m) < TaskId(name) =>
                        ~Due(tasks[TaskId(m)], now)

\* The pass at the current time has dispatched every task of M that was due.
Quiet(M) == \A m \in M : ~Due(tasks[TaskId(m)], now)

-----------------------------------------------------------------------------
(* Flow interrupt handler and flow updater *)

\* flow.instantaneousFlow = litres / (deltaTime / 1000.0), in uL/s, for
\* litres = p / pulsesPerLitre and deltaTime = d ticks.
InstantaneousFlowOf(p, d) == Scale(p, 5000000, 9 * d)

\* flow.flowRate = flow.instantaneousFlow * 60.0, in mL/min.
FlowRateNominal(p, d) == Scale(p, 100000, 3 * UPDATE_INTERVAL)
FlowRateOf(p, d) == Scale(p, 100000, 3 * d)

\* flow.totalLitres += litres, and likewise the other four totals
AddLitresAssigned(total, litres) == litres
AddLitres(total, litres) == total + litres

\* attachInterrupt / detachInterrupt on FLOW_SENSOR_PIN: the new state of
\* the pin's interrupt.
AttachInterrupt == TRUE
DetachInterruptForgotten == TRUE
DetachInterrupt == FALSE

\* void IRAM_ATTR pulseCounter()
pulseCounterTwice ==
    pulseCount' = pulseCount + 2
pulseCounter ==
    pulseCount' = pulseCount + 1

\* One falling edge of the flow sensor.  The GPIO interrupt is edge
\* triggered: with the handler attached the edge runs pulseCounter, with the
\* handler detached the pin's interrupt type is disabled and the edge is
\* neither delivered nor latched.
SensorEdge ==
    /\ edgesProduced < MaxEdges
    /\ edgesProduced' = edgesProduced + 1
    /\ IF intrAttached THEN pulseCounter ELSE UNCHANGED pulseCount
    /\ UNCHANGED <<now, intrAttached, ufPc, ufNow, ufDelta, ufLitres,
                   lastUpdate, flowRate, instantaneousFlow, drainedTotal,
                   ufDiscarded, totalVars, notPulse>>

\* updateFlowData, entry: the interval test; when it passes, the interrupt is
\* detached, otherwise the call returns at once.
UpdateFlowEnter ==
    /\ ufPc = "idle"
    /\ ufNow' = now
    /\ ufDelta' = now - lastUpdate
    /\ IF now - lastUpdate >= UPDATE_INTERVAL
          THEN /\ intrAttached' = DetachInterrupt
               /\ ufPc' = "detached"
          ELSE UNCHANGED <<intrAttached, ufPc>>
    /\ UNCHANGED <<now, pulseCount, ufLitres, lastUpdate, flowRate,
                   instantaneousFlow, edgesProduced, drainedTotal,
                   ufDiscarded, totalVars, notPulse>>

\* updateFlowData: the read of pulseCount, the flow computation and the
\* totals.
UpdateFlowRead ==
    /\ ufPc = "detached"
    /\ ufLitres' = pulseCount
    /\ instantaneousFlow' = InstantaneousFlowOf(pulseCount, ufDelta)
    /\ flowRate' = FlowRateOf(pulseCount, ufDelta)
    /\ totalLitres' = AddLitres(totalLitres, pulseCount)
    /\ dailyLitres' = AddLitres(dailyLitres, pulseCount)
    /\ weeklyLitres' = AddLitres(weeklyLitres, pulseCount)
    /\ monthlyLitres' = AddLitres(monthlyLitres, pulseCount)
    /\ yearlyLitres' = AddLitres(yearlyLitres, pulseCount)
    /\ drainedTotal' = drainedTotal + pulseCount
    /\ ufPc' = "read"
    /\ UNCHANGED <<now, pulseCount, intrAttached, ufNow, ufDelta, lastUpdate,
                   edgesProduced, ufDiscarded, notPulse>>

\* updateFlowData: flow.pulseCount = 0
UpdateFlowReset ==
    /\ ufPc = "read"
    /\ ufDiscarded' = pulseCount
    /\ pulseCount' = 0
    /\ ufPc' = "reset"
    /\ UNCHANGED <<now, intrAttached, ufNow, ufDelta, ufLitres, lastUpdate,
                   flowRate, instantaneousFlow, edgesProduced, drainedTotal,
                   totalVars, notPulse>>

\* updateFlowData: the interrupt is attached again, lastUpdate = now, return.
UpdateFlowAttach ==
    /\ ufPc = "reset"
    /\ intrAttached' = AttachInterrupt
    /\ lastUpdate' = ufNow
    /\ ufPc' = "idle"
    /\ UNCHANGED <<now, pulseCount, ufNow, ufDelta, ufLitres, flowRate,
                   instantaneousFlow, edgesProduced, drainedTotal,
                   ufDiscarded, totalVars, notPulse>>

\* void updateFlowData(), from entry to return with no sensor edge in
\* between: the four steps above in sequence.
updateFlowData ==
    /\ ufNow' = now
    /\ ufDelta' = now - lastUpdate
    /\ IF now - lastUpdate >= UPDATE_INTERVAL
          THEN /\ ufLitres' = pulseCount
               /\ instantaneousFlow' =
                      InstantaneousFlowOf(pulseCount, now - lastUpdate)
               /\ flowRate' = FlowRateOf(pulseCount, now - lastUpdate)
               /\ totalLitres' = AddLitres(totalLitres, pulseCount)
               /\ dailyLitres' = AddLitres(dailyLitres, pulseCount)
               /\ weeklyLitres' = AddLitres(weeklyLitres, pulseCount)
               /\ monthlyLitres' = AddLitres(monthlyLitres, pulseCount)
               /\ yearlyLitres' = AddLitres(yearlyLitres, pulseCount)
               /\ drainedTotal' = drainedTotal + pulseCount
               /\ ufDiscarded' = pulseCount
               /\ pulseCount' = 0
               /\ intrAttached' = AttachInterrupt
               /\ lastUpdate' = now
          ELSE UNCHANGED <<ufLitres, instantaneousFlow, flowRate, totalVars,
                           drainedTotal, ufDiscarded, pulseCount,
                           intrAttached, lastUpdate>>
    /\ UNCHANGED <<ufPc, edgesProduced>>

-----------------------------------------------------------------------------
(* Event log, alert buffer, actuators.  The handlers below call one        *)
(* another in sequence, so each is an operator from the store before the   *)
(* call to the store after it; Store is the store of the current state.    *)

Store ==
    [alerts |-> alerts, alertIndex |-> alertIndex,
     events |-> events, eventIndex |-> eventIndex,
     valve |-> valve, tones |-> tones, notifications |-> notifications,
     calls |-> calls, alertCount |-> alertCount, eventCount |-> eventCount]

\* The next state's store is s.
StoreBecomes(s) ==
    /\ alerts' = s.alerts
    /\ alertIndex' = s.alertIndex
    /\ events' = s.events
    /\ eventIndex' = s.eventIndex
    /\ valve' = s.valve
    /\ tones' = s.tones
    /\ notifications' = s.notifications
    /\ calls' = s.calls
    /\ alertCount' = s.alertCount
    /\ eventCount' = s.eventCount

\* A handler starts: the record of its addAlert calls is empty.
Entered(s) == [s EXCEPT !.calls = <<>>]

\* The part of a store that is the firmware's own data.
ProgramPart(s) ==
    <<s.alerts, s.alertIndex, s.events, s.eventIndex, s.valve>>

\* The actuator and notification commands issued so far.
Commands(s) == <<s.tones, s.notifications>>

\* Alert alerts[i], Event events[i] before the first write: zero-initialised
NoAlert == [type |-> "", message |-> <<>>, timestamp |-> 0, severity |-> 0,
            acknowledged |-> FALSE, active |-> FALSE]
NoEvent == [type |-> "", message |-> <<>>, timestamp |-> 0, priority |-> 0,
            source |-> ""]

\* eventIndex = (eventIndex + 1) % MAX_EVENTS
NextEventIndex(i) == (i + 1) % MAX_EVENTS

\* void logEvent(String type, String message, int priority, String source)
logEvent(s, type, message, priority, source) ==
    [s EXCEPT !.events[s.eventIndex] =
                  [type |-> type, message |-> message, timestamp |-> now,
                   priority |-> priority, source |-> source],
              !.eventIndex = NextEventIndex(s.eventIndex),
              !.eventCount = @ + 1]

\* void sendNotification(String message)
sendNotification(s, message) ==
    logEvent([s EXCEPT !.notifications = @ + 1],
             "Notification", message, 2, "Comms")

\* void playAlertTone(int pattern)
playAlertTone(s, pattern) ==
    IF ~config.soundAlerts \/ pattern \notin 1..4
       THEN s
       ELSE [s EXCEPT !.tones = @ + 1]

\* addAlert: "similar alert already exists"
AlertExistsAtIndex(s, type, message) ==
    /\ s.alerts[s.alertIndex].active
    /\ s.alerts[s.alertIndex].type = type
    /\ s.alerts[s.alertIndex].message = message
AlertExistsUnacknowledged(s, type, message) ==
    \E i \in 0..(MAX_ALERTS - 1) :
        /\ s.alerts[i].active
        /\ ~s.alerts[i].acknowledged
        /\ s.alerts[i].type = type
        /\ s.alerts[i].message = message
AlertExists(s, type, message) ==
    \E i \in 0..(MAX_ALERTS - 1) :
        /\ s.alerts[i].active
        /\ s.alerts[i].type = type
        /\ s.alerts[i].message = message

\* alertIndex = (alertIndex + 1) % MAX_ALERTS
NextAlertIndexUnwrapped(i) == i + 1
NextAlertIndexStuck(i) == i
NextAlertIndex(i) == (i + 1) % MAX_ALERTS

\* addAlert: the notifications of a stored alert
AlertNotificationsFromMedium(s, message, severity) ==
    IF severity >= 2
       THEN LET s1 == IF config.soundAlerts
                         THEN playAlertTone(s, severity) ELSE s
                s2 == IF config.emailAlerts
                         THEN sendNotification(s1, <<"ALERT: ", message>>)
                         ELSE s1
            IN  IF config.smsAlerts
                   THEN sendNotification(s2, <<"SMS: ", message>>)
                   ELSE s2
       ELSE s
AlertNotifications(s, message, severity) ==
    IF severity >= 3
       THEN LET s1 == IF config.soundAlerts
                         THEN playAlertTone(s, severity) ELSE s
                s2 == IF config.emailAlerts
                         THEN sendNotification(s1, <<"ALERT: ", message>>)
                         ELSE s1
            IN  IF config.smsAlerts
                   THEN sendNotification(s2, <<"SMS: ", message>>)
                   ELSE s2
       ELSE s

\* void addAlert(String type, String message, int severity)
addAlert(s, type, message, severity) ==
    LET call == [type |-> type, message |-> message, severity |-> severity,
                 inserted |-> ~AlertExists(s, type, message)]
        c == [s EXCEPT !.calls = Append(@, call)]
    IN  IF AlertExists(s, type, message)
           THEN c
           ELSE LET s1 == [c EXCEPT
                             !.alerts[s.alertIndex] =
                                 [type |-> type, message |-> message,
                                  timestamp |-> now, severity |-> severity,
                                  acknowledged |-> FALSE, active |-> TRUE],
                             !.alertIndex = NextAlertIndex(s.alertIndex),
                             !.alertCount = @ + 1]
                IN  logEvent(AlertNotifications(s1, message, severity),
                             "Alert", message, severity, type)

\* void acknowledgeAlert(int index)
acknowledgeAlert(s, index) ==
    IF index >= 0 /\ index < MAX_ALERTS
       THEN [s EXCEPT !.alerts[index].acknowledged = TRUE]
       ELSE s

\* void handleValve(bool state)
handleValve(s, state) ==
    LET text == IF state THEN "Valve opened" ELSE "Valve closed"
        alert == IF state THEN "Manual valve open"
                          ELSE "Emergency valve closure"
        s1 == [s EXCEPT !.valve = state]
        s2 == logEvent(s1, "Valve", <<text>>, 2, "Control")
    IN  addAlert(s2, "Valve", <<alert>>, 2)

-----------------------------------------------------------------------------
(* Alert engine: checkAlerts, rule by rule.  Every rule reads the snapshot *)
(* variables of the current state and the pass time now.                   *)

\* 1. High flow alert
HighFlowRule(s) ==
    IF flowRate > maxFlowThreshold
       THEN addAlert(s, "HighFlow",
                     <<"High flow detected: ", Round2(flowRate),
                       " L/min (Threshold: ", Round2(maxFlowThreshold)>>, 3)
       ELSE s

\* 2. Leak detection: the band test, and the test that the timer has run
\* out while the band still holds
InLeakBand ==
    flowRate > leakThreshold /\ flowRate < maxFlowThreshold
LeakWindowExceeded ==
    InLeakBand /\ leakChecking /\ now - leakStartTime > anomalyWindow

\* 2. Leak detection: the alert and the valve
LeakRuleCloseOnInsert(s) ==
    IF LeakWindowExceeded
       THEN LET a == addAlert(s, "Leak",
                        <<"Continuous flow detected for over ",
                          (anomalyWindow * 4) \div 60000,
                          " minutes. Possible leak.">>, 4)
            IN  IF config.autoValveShutdown /\ a.alertCount # s.alertCount
                   THEN handleValve(a, FALSE) ELSE a
       ELSE s
LeakRuleOpens(s) ==
    IF LeakWindowExceeded
       THEN LET a == addAlert(s, "Leak",
                        <<"Continuous flow detected for over ",
                          (anomalyWindow * 4) \div 60000,
                          " minutes. Possible leak.">>, 4)
            IN  IF config.autoValveShutdown THEN handleValve(a, TRUE) ELSE a
       ELSE s
LeakRule(s) ==
    IF LeakWindowExceeded
       THEN LET a == addAlert(s, "Leak",
                        <<"Continuous flow detected for over ",
                          (anomalyWindow * 4) \div 60000,
                          " minutes. Possible leak.">>, 4)
            IN  IF config.autoValveShutdown THEN handleValve(a, FALSE) ELSE a
       ELSE s

\* 2. Leak detection: the statics leakChecking and leakStartTime
LeakCheckingSticky == InLeakBand \/ leakChecking
LeakCheckingNext == InLeakBand
LeakStartTimeNext ==
    IF InLeakBand /\ ~leakChecking THEN now ELSE leakStartTime

\* (float) v for an unsigned long v: the nearest value with a 24-bit
\* significand, ties to the even one; FloatUnit is the spacing of such
\* values around v.
RECURSIVE FloatUnit(_, _)
FloatUnit(v, u) == IF v \div u < 16777216 THEN u ELSE FloatUnit(v, 2 * u)
ToFloat(v) ==
    LET u == FloatUnit(v, 1)
        q == v \div u
        r == v % u
    IN  IF 2 * r > u \/ (2 * r = u /\ q % 2 = 1) THEN (q + 1) * u
                                                  ELSE q * u

\* 3. No usage alert: now - lastUsageTime, an unsigned long in ms, is
\* converted to float for the comparison with the float product
\* thresholds.noUsageThreshold * 3600000.
NoUsageRule(s) ==
    IF /\ flowRate <= 100
       /\ ToFloat(4 * (now - lastUsageTime)) > noUsageThreshold * 3600
       THEN addAlert(s, "NoUsage",
                     <<"No water usage detected for ",
                       Round2(noUsageThreshold), " hours">>, 2)
       ELSE s
LastUsageTimeNext == IF flowRate > 100 THEN now ELSE lastUsageTime

\* 4. Sudden drop alert
SuddenDropSampled == now - lastCheckTime > Ms(60000)
DropPercent == ((lastFlowRate - flowRate) * 100000) \div lastFlowRate
SuddenDropRuleAnyRate(s) ==
    IF /\ SuddenDropSampled
       /\ lastFlowRate > 1000
       /\ DropPercent > suddenDropThreshold
       THEN addAlert(s, "SuddenDrop",
                     <<"Flow dropped by ", Round2(DropPercent),
                       "% in one minute">>, 3)
       ELSE s
SuddenDropRule(s) ==
    IF /\ SuddenDropSampled
       /\ lastFlowRate > 1000
       /\ flowRate > 100
       /\ DropPercent > suddenDropThreshold
       THEN addAlert(s, "SuddenDrop",
                     <<"Flow dropped by ", Round2(DropPercent),
                       "% in one minute">>, 3)
       ELSE s

\* 5. Water quality alerts
QualityRules(s) ==
    LET s1 == IF temperature > temperatureThreshold
                 THEN addAlert(s, "HighTemp",
                               <<"Water temperature high: ",
                                 Round2(temperature)>>, 3)
                 ELSE s
    IN  IF pH < 6500 \/ pH > 8500
           THEN addAlert(s1, "pHAlert",
                         <<"Water pH out of range: ", Round2(pH)>>, 3)
           ELSE s1

\* 6. Budget alert
OverBudget == dailyCost * 30 > budget
BudgetRule(s) ==
    IF OverBudget
       THEN addAlert(s, "Budget",
                     <<"Daily cost (", Round2(dailyCost),
                       ") exceeds budget limit">>, 2)
       ELSE s

\* 7. System health alerts
HealthRules(s) ==
    LET s1 == IF memoryUsage < 20000
                 THEN addAlert(s, "Memory",
                               <<"Low memory: ", Round2(memoryUsage),
                                 "KB free">>, 3)
                 ELSE s
    IN  IF wifiSignal < -80
           THEN addAlert(s1, "WiFi",
                         <<"Weak WiFi signal: ", wifiSignal, " dBm">>, 2)
           ELSE s1

\* History: a dispatch observes the rate strictly inside the leak band
ObservedInBand ==
    leakThreshold < flowRate /\ flowRate < maxFlowThreshold

\* Leak insertions among the addAlert calls of a handler run
LeakInsertions(cs) ==
    Cardinality({i \in 1..Len(cs) : cs[i].type = "Leak" /\ cs[i].inserted})

\* void checkAlerts()
checkAlerts ==
    LET s == HealthRules(BudgetRule(QualityRules(SuddenDropRule(
               NoUsageRule(LeakRule(HighFlowRule(Entered(Store))))))))
    IN  /\ StoreBecomes(s)
        /\ leakStartTime' = LeakStartTimeNext
        /\ leakChecking' = LeakCheckingNext
        /\ lastUsageTime' = LastUsageTimeNext
        /\ lastFlowRate' = IF SuddenDropSampled THEN flowRate
                                                ELSE lastFlowRate
        /\ lastCheckTime' = IF SuddenDropSampled THEN now ELSE lastCheckTime
        /\ budgetAlert' = (budgetAlert \/ OverBudget)
        /\ caRuns' = caRuns + 1
        /\ bandSince' = IF ObservedInBand
                           THEN IF bandSince = -1 THEN now ELSE bandSince
                           ELSE -1
        /\ episodeLeaks' = IF ObservedInBand
                              THEN episodeLeaks + LeakInsertions(s.calls)
                              ELSE 0
        /\ bandBreaks' = IF bandSince # -1 /\ ~ObservedInBand
                            THEN bandBreaks + 1 ELSE bandBreaks
        /\ UNCHANGED <<dailyCost, monthlyCost>>

-----------------------------------------------------------------------------
(* Operator commands, snapshot producers, system health *)

\* loop(), serial commands "valve on" / "valve off"
SerialValve(state) ==
    /\ opCommands < MaxCommands
    /\ opCommands' = opCommands + 1
    /\ StoreBecomes(handleValve(Entered(Store), state))
    /\ UNCHANGED <<now, flowRate, caVars, healthVars, billingVars, tasks,
                   notAlert>>

\* setup(), handler of /api/valve/toggle
ToggleValve ==
    /\ opCommands < MaxCommands
    /\ opCommands' = opCommands + 1
    /\ StoreBecomes(handleValve(Entered(Store), ~valve))
    /\ UNCHANGED <<now, flowRate, caVars, healthVars, billingVars, tasks,
                   notAlert>>

\* setup(), handler of /api/alerts/acknowledge
AcknowledgeAll ==
    /\ opCommands < MaxCommands
    /\ opCommands' = opCommands + 1
    /\ alerts' = [i \in 0..(MAX_ALERTS - 1) |->
                     [alerts[i] EXCEPT !.acknowledged = TRUE]]
    /\ UNCHANGED <<alertIndex, events, eventIndex, valve, tones,
                   notifications, calls, alertCount, eventCount>>
    /\ UNCHANGED <<now, flowRate, caVars, healthVars, billingVars, tasks,
                   notAlert>>

\* flow.flowRate as checkAlerts is about to find it: the value that
\* updateFlowData, dispatched before CheckAlerts in the same pass, has
\* computed; one of the rates F.
SampleFlow(F) ==
    /\ Due(tasks[TaskId("CheckAlerts")], now)
    /\ \E f \in F : f # flowRate /\ flowRate' = f
    /\ UNCHANGED <<now, storeVars, opCommands, caVars, healthVars,
                   billingVars, tasks, notAlert>>

\* void checkSystemHealth(), with WiFi.RSSI() = rssi and
\* ESP.getFreeHeap() / 1024.0 = heap
checkSystemHealth(rssi, heap) ==
    LET s0 == Entered(Store)
        s1 == IF heap < 20000
                 THEN logEvent(s0, "System", <<"Low memory warning">>, 3,
                               "Health")
                 ELSE s0
        s2 == IF rssi < -85
                 THEN logEvent(s1, "System", <<"Weak WiFi signal">>, 2,
                               "Health")
                 ELSE s1
    IN  /\ wifiSignal' = rssi
        /\ memoryUsage' = heap
        /\ StoreBecomes(s2)

\* WiFi.RSSI() and ESP.getFreeHeap() / 1024.0 as the health monitor reads
\* them: a fair signal, ample memory
RssiReadings == {-60}
HeapReadings == {150000}

-----------------------------------------------------------------------------
(* Statistics *)

\* bufferIndex = (bufferIndex + 1) % 100
NextBufferIndex(i) == (i + 1) % 100

\* sorted[k] after the bubble sort of the window: the element of rank k of
\* the window in ascending order
SortedAtDescending(buf, k) ==
    CHOOSE v \in {buf[i] : i \in 0..99} :
        /\ Cardinality({i \in 0..99 : buf[i] > v}) <= k
        /\ Cardinality({i \in 0..99 : buf[i] >= v}) > k
SortedAt(buf, k) ==
    CHOOSE v \in {buf[i] : i \in 0..99} :
        /\ Cardinality({i \in 0..99 : buf[i] < v}) <= k
        /\ Cardinality({i \in 0..99 : buf[i] <= v}) > k

\* Sum of the seven daily totals
SumTotals(t) == t[0] + t[1] + t[2] + t[3] + t[4] + t[5] + t[6]

\* stats.minFlow after a sample: lowered by a positive sample only
MinFlowAfterAny(m, sample) == IF sample < m THEN sample ELSE m
MinFlowAfter(m, sample) ==
    IF sample < m /\ sample > 0 THEN sample ELSE m

\* if (bufferIndex == 0): the window has just been filled
WindowFullEarly(idx) == idx % 50 = 0
WindowFull(idx) == idx = 0

\* void updateStatistics()
updateStatistics ==
    LET n == sampleCount + 1
        cleared == IF tmHour # currentHour
                      THEN [hourlyUsage EXCEPT ![tmHour] = 0]
                      ELSE hourlyUsage
        buf == [flowBuffer EXCEPT ![bufferIndex] = flowRate]
        idx == NextBufferIndex(bufferIndex)
        totals == [dailyTotals EXCEPT ![dayIndex] = dailyLitres]
        average == SumTotals(totals) \div 7
    IN  /\ sampleCount' = n
        /\ averageFlow' = (averageFlow * (n - 1) + flowRate) \div n
        /\ peakFlow' = IF flowRate > peakFlow THEN flowRate ELSE peakFlow
        /\ minFlow' = MinFlowAfter(minFlow, flowRate)
        /\ IF timeSynced
              THEN /\ currentHour' = tmHour
                   /\ hourlyUsage' =
                          [cleared EXCEPT ![tmHour] = @ + flowRate \div 60]
              ELSE UNCHANGED <<currentHour, hourlyUsage>>
        /\ flowBuffer' = buf
        /\ bufferIndex' = idx
        /\ flowPercentiles' =
              IF WindowFull(idx)
                 THEN <<SortedAt(buf, 9), SortedAt(buf, 24),
                        SortedAt(buf, 49), SortedAt(buf, 74),
                        SortedAt(buf, 89)>>
                 ELSE flowPercentiles
        /\ IF now - lastDayUpdate > Day
              THEN /\ dailyTotals' = totals
                   /\ dayIndex' = (dayIndex + 1) % 7
                   /\ weeklyAverage' = average
                   /\ usageTrend' =
                          IF dailyAverage > 0
                             THEN ((average - dailyAverage) * 100)
                                      \div dailyAverage
                             ELSE usageTrend
                   /\ dailyAverage' = dailyLitres
                   /\ lastDayUpdate' = now
              ELSE UNCHANGED <<dailyTotals, dayIndex, weeklyAverage,
                               usageTrend, dailyAverage, lastDayUpdate>>
        /\ UNCHANGED tmHour

-----------------------------------------------------------------------------
(* Predictions *)

\* predictions.weights, in hundredths
weights == <<15, 20, 25, 15, 10, 10, 5>>

\* The largest r in lo..hi with r * r <= n, for lo * lo <= n
RECURSIVE SqrtBetween(_, _, _)
SqrtBetween(n, lo, hi) ==
    IF lo >= hi
       THEN lo
       ELSE LET mid == (lo + hi + 1) \div 2
            IN  IF mid * mid <= n THEN SqrtBetween(n, mid, hi)
                                  ELSE SqrtBetween(n, lo, mid - 1)

\* sqrt(n), truncated
ISqrt(n) == SqrtBetween(n, 0, 46340)

\* constrain(x, lo, hi) of Arduino.h, for a number x
Constrain(x, lo, hi) == IF x < lo THEN lo ELSE IF x > hi THEN hi ELSE x

\* updatePredictions: weightedSum over the history h with the pointer
\* already advanced to ptr, in hundredths of a pulse
WeightedSum(h, ptr) ==
    LET RECURSIVE Upto(_)
        Upto(i) == IF i < 0 THEN 0
                   ELSE h[(ptr - i + 7) % 7] * weights[i + 1] + Upto(i - 1)
    IN  Upto(6)

\* updatePredictions: weightSum, the sum of the weights, in hundredths
WeightSum == weights[1] + weights[2] + weights[3] + weights[4] + weights[5]
             + weights[6] + weights[7]

\* updatePredictions: sum of the seven history values; mean = Sum7(h) / 7
Sum7(h) == h[0] + h[1] + h[2] + h[3] + h[4] + h[5] + h[6]

\* updatePredictions: 49 * 7 * variance, i.e. the sum over the history of
\* (7 * x - sum)^2
Spread7(h) ==
    LET S == Sum7(h)
        RECURSIVE Upto(_)
        Upto(i) == IF i < 0 THEN 0
                   ELSE (7 * h[i] - S) * (7 * h[i] - S) + Upto(i - 1)
    IN  Upto(6)

\* updatePredictions: sqrt(variance) / mean is 0.0 / 0.0, which is NaN, when
\* the history is all zero (the values are never negative); constrain
\* compares, and every comparison with NaN is false, so NaN comes out of it.
ConfidenceIsNaN(h) == Sum7(h) = 0

\* updatePredictions: constrain(100 - sqrt(variance) / mean * 100, 0, 100)
\* in thousandths of a percent, for a history whose mean is not zero;
\* sqrt(variance) / mean = sqrt(Spread7 / 7) / Sum7.
ConfidenceOf(h) ==
    Constrain(100000 - (100000 * ISqrt(Spread7(h) \div 7)) \div Sum7(h),
              0, 100000)

\* updatePredictions: the seasonal factor of month tm_mon, in thousandths
SeasonalFactorOf(month) ==
    IF month >= 5 /\ month <= 7 THEN 1200
    ELSE IF month >= 11 \/ month <= 1 THEN 800
    ELSE 1000

\* void updatePredictions()
updatePredictions ==
    IF now - lastPrediction > Ms(3600000)
       THEN LET h == [last7Days EXCEPT ![dayPtr] = dailyLitres]
                ptr == (dayPtr + 1) % 7
                daily == (WeightedSum(h, ptr) * 100) \div WeightSum
                factor == IF timeSynced THEN SeasonalFactorOf(tmMon)
                                        ELSE seasonalFactor
            IN  /\ last7Days' = h
                /\ dayPtr' = ptr
                /\ predictedWeeklyUsage' = daily * 7
                /\ predictedMonthlyUsage' = daily * 30
                /\ seasonalFactor' = factor
                /\ predictedDailyUsage' =
                      IF timeSynced THEN (daily * factor) \div 1000
                                    ELSE daily
                /\ confidenceNaN' = ConfidenceIsNaN(h)
                /\ confidenceScore' = IF ConfidenceIsNaN(h) THEN 0
                                                            ELSE ConfidenceOf(h)
                /\ lastPrediction' = now
                /\ UNCHANGED tmMon
       ELSE UNCHANGED predVars

-----------------------------------------------------------------------------
(* Time synchronisation *)

\* getLocalTime(&timeInfo.timeinfo): once the system clock has been set it
\* succeeds; before that it can succeed or time out.
GetLocalTimeResults == IF timeSynced THEN {TRUE} ELSE BOOLEAN

\* tm_hour and tm_mon as a successful getLocalTime can set them
SyncHours == {9, 10}
SyncMonths == {5}

\* tm_hour after a getLocalTime that timed out: it has filled timeinfo from
\* the unset system clock, which counts from 1970-01-01 00:00 at boot
\* (tm_mon is then 0).
EpochHour == (now \div Ms(3600000)) % 24

\* syncTime: the else branch
SyncFailedTwice(s) ==
    logEvent(logEvent(s, "System", <<"Time synchronization failed">>, 3,
                      "Time"),
             "System", <<"Time synchronization failed">>, 3, "Time")
SyncFailed(s) ==
    logEvent(s, "System", <<"Time synchronization failed">>, 3, "Time")

\* void syncTime(), with getLocalTime returning ok and, when ok, the hour
\* and month given
syncTime(ok, hour, month) ==
    IF ~timeSynced \/ now - lastSync > Ms(3600000)
       THEN IF ok
               THEN /\ timeSynced' = TRUE
                    /\ lastSync' = now
                    /\ tmHour' = hour
                    /\ tmMon' = month
                    /\ StoreBecomes(logEvent(Entered(Store), "System",
                                             <<"Time synchronized: ">>, 2,
                                             "Time"))
               ELSE /\ tmHour' = EpochHour
                    /\ tmMon' = 0
                    /\ StoreBecomes(SyncFailed(Entered(Store)))
                    /\ UNCHANGED <<timeSynced, lastSync>>
       ELSE UNCHANGED <<timeSynced, lastSync, tmHour, tmMon, storeVars>>

-----------------------------------------------------------------------------
(* Zones *)

\* A Zone initialiser: sensorPin 34 is FLOW_SENSOR_PIN; flowRate,
\* dailyUsage and customThreshold in thousandths, leakStartTime in ticks
ZoneOf(name, sensorPin, customThreshold) ==
    [name |-> name, sensorPin |-> sensorPin, enabled |-> TRUE,
     flowRate |-> 0, totalUsage |-> 0, dailyUsage |-> 0,
     leakDetected |-> FALSE, leakStartTime |-> 0,
     customThreshold |-> customThreshold]

\* void initializeZones()
initializeZones ==
    [i \in 0..4 |->
        CASE i = 0 -> ZoneOf("Main Supply", 34, 10000)
          [] i = 1 -> ZoneOf("Kitchen", -1, 5000)
          [] i = 2 -> ZoneOf("Bathroom", -1, 3000)
          [] i = 3 -> ZoneOf("Garden", -1, 8000)
          [] i = 4 -> ZoneOf("Laundry", -1, 4000)]

\* Values of random(0, 100) / 10.0: no flow, a flow above 0.1 L/min and
\* below every zone's customThreshold, a flow above the Kitchen's,
\* Bathroom's and Laundry's customThreshold
ZoneFlows == {0, 2000, 6000}

\* The draws of one updateZoneData call: at most one zone with flow
ZoneDraws ==
    {[i \in 0..4 |-> IF i = k THEN f ELSE 0] : k \in 1..4, f \in ZoneFlows}

\* updateZoneData, the body of the loop for zone z with random(0, 100) /
\* 10.0 = f: the zone afterwards
ZoneAfter(z, f) ==
    IF z.enabled /\ z.sensorPin = -1
       THEN [z EXCEPT
               !.flowRate = f,
               !.dailyUsage = @ + f \div 60,
               !.leakStartTime = IF f > 100
                                    THEN IF @ = 0 THEN now ELSE @
                                    ELSE 0,
               !.leakDetected =
                   IF f > 100
                      THEN @ \/ (z.leakStartTime # 0
                                   /\ now - z.leakStartTime > Ms(300000))
                      ELSE FALSE]
       ELSE z

\* updateZoneData, the body of the loop for zone z with random(0, 100) /
\* 10.0 = f: the store afterwards
ZoneLeakRule(s, z, f) ==
    IF /\ z.enabled /\ z.sensorPin = -1
       /\ f > 100
       /\ z.leakStartTime # 0
       /\ now - z.leakStartTime > Ms(300000)
       THEN addAlert(s, "ZoneLeak",
                     <<"Possible leak in ", z.name, " zone">>, 3)
       ELSE s

\* void updateZoneData(), with the values draw[i] of random(0, 100) / 10.0
updateZoneData(draw) ==
    LET RECURSIVE Upto(_)
        Upto(i) == IF i < 0 THEN Entered(Store)
                   ELSE ZoneLeakRule(Upto(i - 1), zones[i], draw[i])
    IN  /\ StoreBecomes(Upto(4))
        /\ zones' = [i \in 0..4 |-> ZoneAfter(zones[i], draw[i])]

-----------------------------------------------------------------------------
(* Billing *)

\* (litres / 1000.0) * billing.ratePer1000L, in m$, for litres in pulses
CostOf(p) == Scale(p, ratePer1000L, 1000 * PulsesPerLitre)

\* void updateBilling()
updateBilling ==
    IF now - lastBillingUpdate > Ms(60000)
       THEN /\ dailyCost' = CostOf(dailyLitres)
            /\ monthlyCost' = CostOf(monthlyLitres)
            /\ yearlyCost' = CostOf(yearlyLitres)
            /\ currentCost' = CostOf(totalLitres)
            /\ carbonFootprint' = Scale(totalLitres, 344, 1000 * PulsesPerLitre)
            /\ budgetAlert' = (CostOf(dailyLitres) * 30 > budget)
            /\ lastBillingUpdate' = now
       ELSE UNCHANGED <<billingVars, costVars>>

-----------------------------------------------------------------------------
(* loop(): the period resets and the serial "reset" command *)

\* dayCount >= 7, monthDayCount >= 30
WeekElapsedLate(n) == n > 7
WeekElapsed(n) == n >= 7
MonthElapsed(n) == n >= 30

\* loop(), "Daily reset at midnight", in the iteration whose pass has
\* dispatched the tasks M that were due
LoopDailyReset(M) ==
    /\ Quiet(M)
    /\ now - lastDayReset > Day
    /\ dailyLitres' = 0
    /\ dailyCost' = 0
    /\ lastDayReset' = now
    /\ IF WeekElapsed(dayCount + 1)
          THEN weeklyLitres' = 0 /\ dayCount' = 0
          ELSE weeklyLitres' = weeklyLitres /\ dayCount' = dayCount + 1
    /\ IF MonthElapsed(monthDayCount + 1)
          THEN monthlyLitres' = 0 /\ monthlyCost' = 0 /\ monthDayCount' = 0
          ELSE /\ monthlyLitres' = monthlyLitres
               /\ monthlyCost' = monthlyCost
               /\ monthDayCount' = monthDayCount + 1
    /\ boundaries' = boundaries + 1
    /\ StoreBecomes(logEvent(Entered(Store), "System",
                             <<"Daily reset performed">>, 1, "System"))
    /\ UNCHANGED <<now, pulseVars, flowRate, totalLitres, yearlyLitres,
                   opCommands, caVars, config, timeSynced, healthVars,
                   qualityVars, budgetAlert, statVars, costVars, predVars,
                   zoneVars, syncVars, tasks, schedVars>>

\* loop(), serial command "reset"
SerialReset ==
    /\ opCommands < MaxResets
    /\ opCommands' = opCommands + 1
    /\ dailyLitres' = 0
    /\ weeklyLitres' = 0
    /\ monthlyLitres' = 0
    /\ StoreBecomes(logEvent(Entered(Store), "System",
                             <<"Manual reset via serial">>, 2, "System"))
    /\ UNCHANGED <<now, pulseVars, flowRate, totalLitres, yearlyLitres,
                   caVars, config, timeSynced, healthVars, qualityVars,
                   billingVars, statVars, costVars, resetVars, predVars,
                   zoneVars, syncVars, tasks, schedVars>>

-----------------------------------------------------------------------------
(* Scheduler: the task functions and the dispatch pass *)

\* tasks[i].function(): the handler registered under a name.  The handlers
\* of UpdateWaterQuality, UpdateLED, SaveHistory,
\* SyncTime and UpdateZones work on simulated sensors, LEDs,
\* history arrays, the calendar and zones; in the first minutes after boot
\* they write none of the variables above.
TaskFunction(name) ==
    CASE name = "UpdateFlow" ->
            updateFlowData /\ UNCHANGED notPulseData
      [] name = "CheckAlerts" ->
            /\ checkAlerts
            /\ UNCHANGED <<flowRate, opCommands, healthVars, notAlertData>>
      [] name = "UpdateStats" ->
            /\ updateStatistics
            /\ UNCHANGED <<pulseVars, flowRate, totalVars, storeVars,
                           opCommands, caVars, config, timeSynced,
                           healthVars, qualityVars, billingVars, costVars,
                           resetVars, predVars, zoneVars, syncVars>>
      [] name = "UpdatePredictions" ->
            /\ updatePredictions
            /\ UNCHANGED <<pulseVars, flowRate, totalVars, storeVars,
                           opCommands, caVars, config, timeSynced,
                           healthVars, qualityVars, billingVars, statVars,
                           costVars, resetVars, zoneVars, syncVars>>
      [] name = "UpdateBilling" ->
            /\ updateBilling
            /\ UNCHANGED <<pulseVars, flowRate, totalVars, storeVars,
                           opCommands, caVars, config, timeSynced,
                           healthVars, qualityVars, statVars, resetVars,
                           predVars, zoneVars, syncVars>>
      [] name = "CheckSystemHealth" ->
            /\ \E rssi \in RssiReadings, heap \in HeapReadings :
                  checkSystemHealth(rssi, heap)
            /\ UNCHANGED <<flowRate, opCommands, caVars, billingVars,
                           notAlertData>>
      [] name = "UpdateZones" ->
            /\ \E draw \in ZoneDraws : updateZoneData(draw)
            /\ UNCHANGED <<pulseVars, flowRate, totalVars, opCommands,
                           caVars, config, timeSynced, healthVars,
                           qualityVars, billingVars, statVars, costVars,
                           resetVars, predVars, syncVars>>
      [] name = "SyncTime" ->
            /\ \E ok \in GetLocalTimeResults, hour \in SyncHours,
                  month \in SyncMonths : syncTime(ok, hour, month)
            /\ UNCHANGED <<pulseVars, flowRate, totalVars, opCommands,
                           caVars, config, healthVars, qualityVars,
                           billingVars, costVars, resetVars, zoneVars>>
            /\ UNCHANGED <<sampleCount, averageFlow, peakFlow, minFlow,
                           hourlyUsage, currentHour, flowBuffer, bufferIndex,
                           flowPercentiles, dailyTotals, dayIndex,
                           lastDayUpdate, weeklyAverage, dailyAverage,
                           usageTrend>>
            /\ UNCHANGED <<last7Days, dayPtr, lastPrediction,
                           predictedDailyUsage, predictedWeeklyUsage,
                           predictedMonthlyUsage, seasonalFactor,
                           confidenceScore, confidenceNaN>>
      [] name = "BackupData" ->
            /\ StoreBecomes(logEvent(Entered(Store), "System",
                                     <<"Data backup completed">>, 2,
                                     "Storage"))
            /\ UNCHANGED <<flowRate, opCommands, caVars, healthVars,
                           billingVars, notAlertData>>
      [] OTHER ->
            UNCHANGED <<pulseVars, flowRate, totalVars, notPulseData>>

\* runScheduledTasks at the current time, one due task: the call, then
\* tasks[i].lastRun = now
RunTask(name) ==
    /\ TaskFunction(name)
    /\ tasks' = MarkRun(tasks, TaskId(name), now)
    /\ UNCHANGED <<now, schedVars>>

\* The pass at the current time dispatches the named task, among the tasks
\* M that a specification dispatches.
DispatchUpdateFlow(M) ==
    /\ Turn("UpdateFlow", M)
    /\ RunTask("UpdateFlow")
DispatchCheckAlerts(M) ==
    /\ Turn("CheckAlerts", M)
    /\ RunTask("CheckAlerts")
DispatchUpdateStats(M) ==
    /\ Turn("UpdateStats", M)
    /\ RunTask("UpdateStats")
DispatchUpdatePredictions(M) ==
    /\ Turn("UpdatePredictions", M)
    /\ RunTask("UpdatePredictions")
DispatchSyncTime(M) ==
    /\ Turn("SyncTime", M)
    /\ RunTask("SyncTime")
DispatchUpdateZones(M) ==
    /\ Turn("UpdateZones", M)
    /\ RunTask("UpdateZones")
DispatchUpdateBilling(M) ==
    /\ Turn("UpdateBilling", M)
    /\ RunTask("UpdateBilling")
DispatchCheckSystemHealth(M) ==
    /\ Turn("CheckSystemHealth", M)
    /\ RunTask("CheckSystemHealth")
DispatchUpdateWaterQuality(M) ==
    /\ Turn("UpdateWaterQuality", M)
    /\ RunTask("UpdateWaterQuality")
DispatchSaveHistory(M) ==
    /\ Turn("SaveHistory", M)
    /\ RunTask("SaveHistory")
DispatchUpdateLED(M) ==
    /\ Turn("UpdateLED", M)
    /\ RunTask("UpdateLED")

\* loop() calls runScheduledTasks: unsigned long now = millis()
SchedBegin ==
    /\ schedPc = "loop"
    /\ passes < MaxPasses
    /\ passes' = passes + 1
    /\ schedNow' = now
    /\ schedI' = 1
    /\ runLog' = <<>>
    /\ passStart' = tasks
    /\ schedPc' = "scan"
    /\ UNCHANGED <<now, pulseVars, flowRate, totalVars, notPulseData, tasks,
                   lastRanAt, prevRanAt>>

\* runScheduledTasks: the test of tasks[i]; a due task's function is entered
SchedTest ==
    /\ schedPc = "scan"
    /\ schedI <= Len(tasks)
    /\ IF Due(tasks[schedI], schedNow)
          THEN /\ schedPc' = "body"
               /\ runLog' = Append(runLog, schedI)
               /\ prevRanAt' = [prevRanAt EXCEPT ![schedI] =
                                                 lastRanAt[schedI]]
               /\ lastRanAt' = [lastRanAt EXCEPT ![schedI] = schedNow]
               /\ UNCHANGED schedI
          ELSE /\ schedI' = schedI + 1
               /\ UNCHANGED <<schedPc, runLog, prevRanAt, lastRanAt>>
    /\ UNCHANGED <<now, pulseVars, flowRate, totalVars, notPulseData, tasks,
                   schedNow, passStart, passes>>

\* runScheduledTasks: the function returns, tasks[i].lastRun = now, i++
SchedRun ==
    /\ schedPc = "body"
    /\ TaskFunction(tasks[schedI].name)
    /\ tasks' = MarkRun(tasks, schedI, schedNow)
    /\ schedI' = schedI + 1
    /\ schedPc' = "scan"
    /\ UNCHANGED <<now, schedNow, runLog, passStart, lastRanAt, prevRanAt,
                   passes>>

\* runScheduledTasks returns; loop() goes on to delay(10)
SchedEnd ==
    /\ schedPc = "scan"
    /\ schedI > Len(tasks)
    /\ schedPc' = "delay"
    /\ UNCHANGED <<now, pulseVars, flowRate, totalVars, notPulseData, tasks,
                   schedNow, schedI, runLog, passStart, lastRanAt,
                   prevRanAt, passes>>

-----------------------------------------------------------------------------
(* The state when setup() returns *)

\* setup(): the four logEvent calls (loadConfig, WiFi, syncTime, welcome)
SetupEvents(wifiOk, synced) ==
    <<[type |-> "Config", message |-> <<"Configuration loaded">>,
       timestamp |-> 0, priority |-> 2, source |-> "System"],
      IF wifiOk
         THEN [type |-> "Network", message |-> <<"WiFi connected: ">>,
               timestamp |-> 0, priority |-> 2, source |-> "Network"]
         ELSE [type |-> "Network", message |-> <<"WiFi connection failed">>,
               timestamp |-> 0, priority |-> 3, source |-> "Network"],
      IF synced
         THEN [type |-> "System", message |-> <<"Time synchronized: ">>,
               timestamp |-> 0, priority |-> 2, source |-> "Time"]
         ELSE [type |-> "System",
               message |-> <<"Time synchronization failed">>,
               timestamp |-> 0, priority |-> 3, source |-> "Time"],
      [type |-> "System",
       message |-> <<"Hydro-Hero initialized successfully">>,
       timestamp |-> 0, priority |-> 1, source |-> "System"]>>

\* SystemConfig: the compiled defaults, and the values loadConfig may read
DefaultConfig ==
    [autoValveShutdown |-> TRUE, emailAlerts |-> FALSE, smsAlerts |-> FALSE,
     soundAlerts |-> TRUE]
NotifyConfig ==
    [autoValveShutdown |-> TRUE, emailAlerts |-> TRUE, smsAlerts |-> TRUE,
     soundAlerts |-> TRUE]
SilentConfig ==
    [autoValveShutdown |-> TRUE, emailAlerts |-> TRUE, smsAlerts |-> FALSE,
     soundAlerts |-> FALSE]

\* A time at which setup() can return: delay(1000), up to 30 WiFi waits of
\* delay(500), the beeps
BootTime == Ms(6000)

\* tm_hour as the time sync in setup() can set it
BootHours == {9}

\* tm_mon as the time sync in setup() can set it: June
BootMonths == {5}

\* The state after setup(), for a configuration among C and a time-sync
\* outcome among S
Boot(C, S) ==
    /\ now = BootTime
    /\ pulseCount = 0
    /\ intrAttached = AttachInterrupt
    /\ ufPc = "idle"
    /\ ufNow = 0
    /\ ufDelta = 0
    /\ ufLitres = 0
    /\ lastUpdate = 0
    /\ flowRate = 0
    /\ instantaneousFlow = 0
    /\ sampleCount = 0
    /\ averageFlow = 0
    /\ peakFlow = 0
    /\ minFlow = 9999000
    /\ hourlyUsage = [h \in 0..23 |-> 0]
    /\ currentHour = 0
    /\ flowBuffer = [i \in 0..99 |-> 0]
    /\ bufferIndex = 0
    /\ flowPercentiles = <<0, 0, 0, 0, 0>>
    /\ dailyTotals = [i \in 0..6 |-> 0]
    /\ dayIndex = 0
    /\ lastDayUpdate = 0
    /\ weeklyAverage = 0
    /\ dailyAverage = 0
    /\ usageTrend = 0
    /\ lastBillingUpdate = 0
    /\ yearlyCost = 0
    /\ currentCost = 0
    /\ carbonFootprint = 0
    /\ lastDayReset = 0
    /\ dayCount = 0
    /\ monthDayCount = 0
    /\ boundaries = 0
    /\ schedPc = "loop"
    /\ schedNow = 0
    /\ schedI = 1
    /\ runLog = <<>>
    /\ passStart = RegisteredTasks
    /\ lastRanAt = [i \in 1..Len(RegisteredTasks) |-> -1]
    /\ prevRanAt = [i \in 1..Len(RegisteredTasks) |-> -1]
    /\ passes = 0
    /\ totalLitres = 0
    /\ dailyLitres = 0
    /\ weeklyLitres = 0
    /\ monthlyLitres = 0
    /\ yearlyLitres = 0
    /\ edgesProduced = 0
    /\ drainedTotal = 0
    /\ ufDiscarded = 0
    /\ config \in C
    /\ timeSynced \in S
    /\ tmHour \in (IF timeSynced THEN BootHours ELSE {0})
    /\ tmMon \in (IF timeSynced THEN BootMonths ELSE {0})
    /\ zones = initializeZones
    /\ lastSync = (IF timeSynced THEN BootTime ELSE 0)
    /\ last7Days = [i \in 0..6 |-> 0]
    /\ dayPtr = 0
    /\ lastPrediction = 0
    /\ predictedDailyUsage = 0
    /\ predictedWeeklyUsage = 0
    /\ predictedMonthlyUsage = 0
    /\ seasonalFactor = 1000
    /\ confidenceScore = 0
    /\ confidenceNaN = FALSE
    /\ alerts = [i \in 0..(MAX_ALERTS - 1) |-> NoAlert]
    /\ alertIndex = 0
    /\ events = [i \in 0..(MAX_EVENTS - 1) |->
                    IF i < 4 THEN SetupEvents(timeSynced, timeSynced)[i + 1]
                             ELSE NoEvent]
    /\ eventIndex = 4
    /\ valve = FALSE
    /\ tones = 0
    /\ notifications = 0
    /\ calls = <<>>
    /\ alertCount = 0
    /\ eventCount = 4
    /\ opCommands = 0
    /\ leakStartTime = 0
    /\ leakChecking = FALSE
    /\ lastUsageTime = 0
    /\ lastFlowRate = 0
    /\ lastCheckTime = 0
    /\ caRuns = 0
    /\ bandSince = -1
    /\ episodeLeaks = 0
    /\ bandBreaks = 0
    /\ temperature = 0
    /\ pH = 7000
    /\ dailyCost = 0
    /\ monthlyCost = 0
    /\ budgetAlert = FALSE
    /\ memoryUsage = 0
    /\ wifiSignal = 0
    /\ tasks = RegisteredTasks

-----------------------------------------------------------------------------
(* The pulse model: the sensor against updateFlowData *)

\* Time passes between two steps of the main context, by less than an
\* update interval or by a whole one.
PulseTick ==
    /\ \E d \in {Ms(400), UPDATE_INTERVAL} :
          /\ now + d <= BootTime + Ms(MaxPulseSecs * 1000)
          /\ now' = now + d
    /\ UNCHANGED <<pulseVars, flowRate, totalVars, notPulse>>

PulseInit == Boot({DefaultConfig}, {FALSE})

PulseNext ==
    \/ SensorEdge
    \/ UpdateFlowEnter
    \/ UpdateFlowRead
    \/ UpdateFlowReset
    \/ UpdateFlowAttach
    \/ PulseTick

SpecPulse == PulseInit /\ [][PulseNext]_vars

-----------------------------------------------------------------------------
(* The alert model: checkAlerts against the flow, the operator and the     *)
(* health monitor                                                          *)

\* Rates at the lower end of the leak band (outside), inside it, and at its
\* upper end (outside)
AlertFlows == {200, 5000, 10000}

\* Time passes, by one CheckAlerts interval or by the whole leak window, once
\* the main loop has dispatched what was due.
AlertTasks == {"CheckAlerts", "CheckSystemHealth"}

AlertTick ==
    /\ Quiet(AlertTasks)
    /\ \E d \in {Ms(5000), anomalyWindow} :
          /\ (now + d - BootTime) \div anomalyWindow <= 1
          /\ (now + d - BootTime) % anomalyWindow <= MaxAlertSteps * Ms(5000)
          /\ now' = now + d
    /\ UNCHANGED <<flowRate, storeVars, opCommands, caVars, healthVars,
                   billingVars, tasks, notAlert>>

AlertInit == Boot({DefaultConfig}, {FALSE})

AlertNext ==
    \/ AlertTick
    \/ DispatchCheckAlerts(AlertTasks)
    \/ SampleFlow(AlertFlows)
    \/ ToggleValve
    \/ AcknowledgeAll
    \/ DispatchCheckSystemHealth(AlertTasks)

SpecAlerts == AlertInit /\ [][AlertNext]_vars

-----------------------------------------------------------------------------
(* The buffer model: a steady flow inside the leak band, minute by minute, *)
(* against the alert buffer, the event log and the percentile window       *)

BufferTasks == {"UpdateFlow", "CheckAlerts", "UpdateStats", "UpdateBilling",
                "CheckSystemHealth"}

\* A minute passes once the pass has dispatched what was due; the sensor
\* produces BurstPulses edges in it, each counted by pulseCounter.
BufferTick ==
    /\ Quiet(BufferTasks)
    /\ intrAttached
    /\ now + Ms(60000) <= BootTime + MaxBufferMinutes * Ms(60000)
    /\ now' = now + Ms(60000)
    /\ pulseCount' = pulseCount + BurstPulses
    /\ edgesProduced' = edgesProduced + BurstPulses
    /\ UNCHANGED <<intrAttached, ufPc, ufNow, ufDelta, ufLitres, lastUpdate,
                   flowRate, instantaneousFlow, drainedTotal, ufDiscarded,
                   totalVars, notPulse>>

BufferInit == Boot({DefaultConfig, NotifyConfig}, {FALSE, TRUE})

BufferNext ==
    \/ BufferTick
    \/ DispatchUpdateFlow(BufferTasks)
    \/ DispatchCheckAlerts(BufferTasks)
    \/ DispatchUpdateStats(BufferTasks)
    \/ DispatchUpdateBilling(BufferTasks)
    \/ DispatchCheckSystemHealth(BufferTasks)

SpecBuffers == BufferInit /\ [][BufferNext]_vars

-----------------------------------------------------------------------------
(* The scheduler model: runScheduledTasks step by step, the clock advancing *)
(* between passes and while a task function runs                            *)

\* loop(): delay(10) and whatever else holds the loop up until the next
\* iteration
LoopDelay ==
    /\ schedPc = "delay"
    /\ \E d \in {Ms(1000), Ms(5000)} :
          /\ now + d <= BootTime + Ms(MaxSchedSecs * 1000)
          /\ now' = now + d
    /\ schedPc' = "loop"
    /\ UNCHANGED <<pulseVars, flowRate, totalVars, notPulseData, tasks,
                   schedNow, schedI, runLog, passStart, lastRanAt,
                   prevRanAt, passes>>

\* Time passes while a task function runs.
BodyTime ==
    /\ schedPc = "body"
    /\ now + Ms(1000) <= BootTime + Ms(MaxSchedSecs * 1000)
    /\ now' = now + Ms(1000)
    /\ UNCHANGED <<pulseVars, flowRate, totalVars, notPulse>>

SchedInit == Boot({DefaultConfig}, {FALSE})

SchedNext ==
    \/ SchedBegin
    \/ SchedTest
    \/ SchedRun
    \/ SchedEnd
    \/ LoopDelay
    \/ BodyTime

SpecSched == SchedInit /\ [][SchedNext]_vars

-----------------------------------------------------------------------------
(* The reset model: the loop's period resets over a month of use *)

ResetTasks == {"UpdateFlow", "UpdateStats", "UpdateBilling"}

\* Time passes once the loop iteration is through, by a day and a tick or,
\* right after boot, by half a day; the sensor produces DayPulses edges in
\* it.
ResetTick ==
    /\ Quiet(ResetTasks)
    /\ ~(now - lastDayReset > Day)
    /\ intrAttached
    /\ \E d \in {Day \div 2, Day + 1} :
          /\ d = Day \div 2 => now = BootTime
          /\ now + d <= BootTime + MaxDays * (Day + 1)
          /\ now' = now + d
    /\ pulseCount' = pulseCount + DayPulses
    /\ edgesProduced' = edgesProduced + DayPulses
    /\ UNCHANGED <<intrAttached, ufPc, ufNow, ufDelta, ufLitres, lastUpdate,
                   flowRate, instantaneousFlow, drainedTotal, ufDiscarded,
                   totalVars, notPulse>>

ResetInit == Boot({DefaultConfig}, {TRUE})

ResetNext ==
    \/ ResetTick
    \/ DispatchUpdateFlow(ResetTasks)
    \/ DispatchUpdateStats(ResetTasks)
    \/ DispatchUpdateBilling(ResetTasks)
    \/ LoopDailyReset(ResetTasks)
    \/ SerialReset

SpecReset == ResetInit /\ [][ResetNext]_vars

-----------------------------------------------------------------------------
(* The flow model: drains of the pulse counter after gaps of different     *)
(* lengths, with different numbers of pulses counted in the gap            *)

\* Pulses counted between two passes: none, one, one litre, two litres
FlowPulses == {0, 1, 450, 900}

FlowTasks == {"UpdateFlow"}

\* Time passes once the pass has dispatched UpdateFlow if it was due: a
\* second or a second and a half, or, straight after the first pass, a
\* whole minute; the sensor produces p edges meanwhile.
FlowTick ==
    /\ Quiet(FlowTasks)
    /\ intrAttached
    /\ \E d \in {Ms(1000), Ms(1500), Ms(60000)}, p \in FlowPulses :
          /\ IF d = Ms(60000)
                THEN now = BootTime
                ELSE now + d <= BootTime + Ms(MaxFlowSecs * 1000)
          /\ now' = now + d
          /\ pulseCount' = pulseCount + p
          /\ edgesProduced' = edgesProduced + p
    /\ UNCHANGED <<intrAttached, ufPc, ufNow, ufDelta, ufLitres, lastUpdate,
                   flowRate, instantaneousFlow, drainedTotal, ufDiscarded,
                   totalVars, notPulse>>

FlowInit == Boot({DefaultConfig}, {FALSE})

FlowNext ==
    \/ FlowTick
    \/ DispatchUpdateFlow(FlowTasks)

SpecFlow == FlowInit /\ [][FlowNext]_vars

-----------------------------------------------------------------------------
(* The drain model: runScheduledTasks step by step, as in the scheduler    *)
(* model, with the loop coming round about once per UpdateFlow interval    *)
(* and the clock free to tick between the pass's reading of millis() and   *)
(* the reading updateFlowData takes for itself                             *)

\* The millisecond counter advances between "now = millis()" in
\* runScheduledTasks and "now = millis()" in updateFlowData, the first task
\* of the scan.
DrainJitter ==
    /\ schedPc = "body"
    /\ tasks[schedI].name = "UpdateFlow"
    /\ now = schedNow
    /\ now' = now + 1
    /\ UNCHANGED <<pulseVars, flowRate, totalVars, notPulse>>

\* loop(): the rest of the iteration, up to the next call of
\* runScheduledTasks; the sensor produces DrainPulses edges meanwhile.
DrainDelay ==
    /\ schedPc = "delay"
    /\ intrAttached
    /\ \E d \in {Ms(996), Ms(1000)} : now' = now + d
    /\ pulseCount' = pulseCount + DrainPulses
    /\ edgesProduced' = edgesProduced + DrainPulses
    /\ schedPc' = "loop"
    /\ UNCHANGED <<intrAttached, ufPc, ufNow, ufDelta, ufLitres, lastUpdate,
                   flowRate, instantaneousFlow, drainedTotal, ufDiscarded,
                   totalVars, notPulseData, tasks, schedNow, schedI, runLog,
                   passStart, lastRanAt, prevRanAt, passes>>

DrainInit == Boot({DefaultConfig}, {FALSE})

DrainNext ==
    \/ SchedBegin
    \/ SchedTest
    \/ DrainJitter
    \/ SchedRun
    \/ SchedEnd
    \/ DrainDelay

SpecDrain == DrainInit /\ [][DrainNext]_vars

-----------------------------------------------------------------------------
(* The valve model: the operator's valve commands against the alert rules, *)
(* the scheduled tasks and the daily reset                                 *)

ValveTasks == {"CheckAlerts", "UpdateStats", "UpdateBilling",
               "CheckSystemHealth"}

\* Time passes, by a CheckAlerts interval, by the leak window or by a day,
\* once the pass has dispatched what was due and the loop has done the
\* daily reset if it was due.
ValveTick ==
    /\ Quiet(ValveTasks)
    /\ ~(now - lastDayReset > Day)
    /\ \E d \in {Ms(5000), anomalyWindow, Day + Ms(5000)} :
          /\ d = anomalyWindow => now - BootTime < anomalyWindow
          /\ d = Day + Ms(5000) => now - BootTime < anomalyWindow
          /\ d = Ms(5000) =>
                (now + d - BootTime) % anomalyWindow
                    <= MaxValveSteps * Ms(5000)
          /\ now' = now + d
    /\ UNCHANGED <<pulseVars, flowRate, totalVars, notPulse>>

ValveInit == Boot({DefaultConfig}, {FALSE})

ValveNext ==
    \/ ValveTick
    \/ DispatchCheckAlerts(ValveTasks)
    \/ DispatchUpdateStats(ValveTasks)
    \/ DispatchUpdateBilling(ValveTasks)
    \/ DispatchCheckSystemHealth(ValveTasks)
    \/ SampleFlow(AlertFlows)
    \/ LoopDailyReset(ValveTasks)
    \/ ToggleValve
    \/ \E state \in BOOLEAN : SerialValve(state)

SpecValve == ValveInit /\ [][ValveNext]_vars

-----------------------------------------------------------------------------
(* The rule model: checkAlerts and checkSystemHealth in the first passes   *)
(* after boot, against rates inside the leak band and above the ceiling    *)

\* Rates inside the leak band and two rates above maxFlowThreshold
RuleFlows == {5000, 10500, 12000}

RuleTasks == {"CheckAlerts", "CheckSystemHealth"}

\* A CheckAlerts interval passes once the pass has dispatched what was due.
RuleTick ==
    /\ Quiet(RuleTasks)
    /\ now + Ms(5000) <= BootTime + MaxRuleSteps * Ms(5000)
    /\ now' = now + Ms(5000)
    /\ UNCHANGED <<flowRate, storeVars, opCommands, caVars, healthVars,
                   billingVars, tasks, notAlert>>

RuleInit == Boot({DefaultConfig}, {FALSE})

RuleNext ==
    \/ RuleTick
    \/ SampleFlow(RuleFlows)
    \/ DispatchCheckAlerts(RuleTasks)
    \/ DispatchCheckSystemHealth(RuleTasks)
    \/ AcknowledgeAll

SpecRules == RuleInit /\ [][RuleNext]_vars

-----------------------------------------------------------------------------
(* The prediction model: the hours after boot, one pass an hour and a      *)
(* minute after the other, with the flow updater feeding the daily total   *)
(* that updatePredictions stores into its seven-slot history               *)

\* Edges the sensor can produce in an hour: none, HourPulses or nine times
\* as many.
PredictPulses == {0, HourPulses, 9 * HourPulses}

PredictTasks == {"UpdateFlow", "UpdatePredictions"}

\* Time passes once the pass has dispatched what was due, up to the first
\* dispatch of UpdatePredictions that finds more than an hour gone; the
\* sensor produces p edges meanwhile.
PredictTick ==
    /\ Quiet(PredictTasks)
    /\ intrAttached
    /\ now + Ms(3660000) <= BootTime + MaxPredictHours * Ms(3660000)
    /\ now' = now + Ms(3660000)
    /\ \E p \in PredictPulses :
          /\ pulseCount' = pulseCount + p
          /\ edgesProduced' = edgesProduced + p
    /\ UNCHANGED <<intrAttached, ufPc, ufNow, ufDelta, ufLitres, lastUpdate,
                   flowRate, instantaneousFlow, drainedTotal, ufDiscarded,
                   totalVars, notPulse>>

PredictInit == Boot({DefaultConfig}, BOOLEAN)

PredictNext ==
    \/ PredictTick
    \/ DispatchUpdateFlow(PredictTasks)
    \/ DispatchUpdatePredictions(PredictTasks)

SpecPredict == PredictInit /\ [][PredictNext]_vars

-----------------------------------------------------------------------------
(* The day-boundary model: the last minute of the first day and the first  *)
(* seconds of the second, at one loop iteration a second, with the         *)
(* statistics task on its 30-second schedule                               *)

\* Edges the sensor can produce in a second of the second day; in the
\* last minute of the first day it produces one a second.
DayEdges == {0, 1}

DayTasks == {"UpdateFlow", "UpdateStats"}

\* Time passes once the loop iteration is through: from boot to the first
\* dispatch of UpdateStats, 30 s after boot or, the loop having been busy,
\* 33 s after it; then the bulk of the day, in which nothing but the
\* dispatches repeats, with DayPulses edges; then second by second.
DayTick ==
    /\ Quiet(DayTasks)
    /\ ~(now - lastDayReset > Day)
    /\ intrAttached
    /\ \E d \in {Ms(30000) - BootTime, Ms(33000) - BootTime,
                  Day - Ms(60000), Ms(1000)}, p \in DayEdges :
          /\ CASE d = Day - Ms(60000) ->
                      now > BootTime /\ now < Ms(60000) /\ p = 0
                [] d = Ms(1000) ->
                      /\ now >= Day - Ms(60000)
                      /\ now + d <= Day + Ms(MaxDaySecs * 1000)
                      /\ now < Day => p = 1
                [] OTHER -> now = BootTime /\ p = 0
          /\ now' = now + d
          /\ pulseCount' = pulseCount + p
                              + (IF d = Day - Ms(60000) THEN DayPulses ELSE 0)
          /\ edgesProduced' = edgesProduced + p
                              + (IF d = Day - Ms(60000) THEN DayPulses ELSE 0)
    /\ UNCHANGED <<intrAttached, ufPc, ufNow, ufDelta, ufLitres, lastUpdate,
                   flowRate, instantaneousFlow, drainedTotal, ufDiscarded,
                   totalVars, notPulse>>

DayInit == Boot({DefaultConfig}, {FALSE})

DayNext ==
    \/ DayTick
    \/ DispatchUpdateFlow(DayTasks)
    \/ DispatchUpdateStats(DayTasks)
    \/ LoopDailyReset(DayTasks)

SpecDay == DayInit /\ [][DayNext]_vars

-----------------------------------------------------------------------------
(* The watch model: checkAlerts over CheckAlerts intervals, minutes and    *)
(* the no-usage period, against rates around the sudden-drop and no-usage  *)
(* limits                                                                  *)

\* No flow, the 0.1 L/min limit of the no-usage and sudden-drop rules, the
\* 1.0 L/min limit of the sudden-drop rule with a rate at half of it, and
\* two rates above it that are 2.5 percent apart
WatchFlows == {0, 100, 500, 1000, 1950, 2000}

WatchTasks == {"CheckAlerts"}

\* Time passes once the pass has dispatched CheckAlerts if it was due: a
\* CheckAlerts interval, a minute, the no-usage period, or the no-usage
\* period and one tick more.
WatchTick ==
    /\ Quiet(WatchTasks)
    /\ \E d \in {Ms(5000), Ms(60000), Ms(noUsageThreshold * 3600),
                  Ms(noUsageThreshold * 3600) + 1} :
          LET gone == now + d - BootTime
              inPeriod == gone % Ms(noUsageThreshold * 3600)
          IN  /\ d >= Ms(noUsageThreshold * 3600) =>
                     now - BootTime < Ms(noUsageThreshold * 3600)
              /\ inPeriod \div Ms(60000) <= MaxWatchSteps + 1
              /\ (inPeriod % Ms(60000)) \div Ms(5000) <= MaxWatchSteps
              /\ now' = now + d
    /\ UNCHANGED <<flowRate, storeVars, opCommands, caVars, healthVars,
                   billingVars, tasks, notAlert>>

WatchInit == Boot({DefaultConfig}, {FALSE})

WatchNext ==
    \/ WatchTick
    \/ SampleFlow(WatchFlows)
    \/ DispatchCheckAlerts(WatchTasks)

SpecWatch == WatchInit /\ [][WatchNext]_vars

-----------------------------------------------------------------------------
(* The zone model: updateZoneData over UpdateZones intervals and one zone  *)
(* leak window, one zone at a time drawing water                           *)

ZoneTasks == {"UpdateZones"}

\* Time passes once the pass has dispatched UpdateZones if it was due: an
\* UpdateZones interval or, once, the five minutes of the zone leak window.
ZoneTick ==
    /\ Quiet(ZoneTasks)
    /\ \E d \in {Ms(15000), Ms(300000)} :
          /\ d = Ms(300000) => now - BootTime < Ms(300000)
          /\ (now + d - BootTime) % Ms(300000) <= MaxZoneSteps * Ms(15000)
          /\ now' = now + d
    /\ UNCHANGED <<pulseVars, flowRate, totalVars, notPulse>>

ZoneInit == Boot({DefaultConfig}, {FALSE})

ZoneNext ==
    \/ ZoneTick
    \/ DispatchUpdateZones(ZoneTasks)

SpecZones == ZoneInit /\ [][ZoneNext]_vars

-----------------------------------------------------------------------------
(* The sync model: the hours after a boot with or without time sync, with  *)
(* the statistics, the predictions and the hourly sync attempt             *)

SyncTasks == {"UpdateFlow", "UpdateStats", "UpdatePredictions", "SyncTime"}

\* Time passes once the pass has dispatched what was due, up to the first
\* pass more than an hour later; the sensor produces no edges or HourPulses
\* edges meanwhile.
SyncTick ==
    /\ Quiet(SyncTasks)
    /\ intrAttached
    /\ now + Ms(3660000) <= BootTime + MaxSyncHours * Ms(3660000)
    /\ now' = now + Ms(3660000)
    /\ \E p \in {0, HourPulses} :
          /\ pulseCount' = pulseCount + p
          /\ edgesProduced' = edgesProduced + p
    /\ UNCHANGED <<intrAttached, ufPc, ufNow, ufDelta, ufLitres, lastUpdate,
                   flowRate, instantaneousFlow, drainedTotal, ufDiscarded,
                   totalVars, notPulse>>

SyncInit == Boot({DefaultConfig}, BOOLEAN)

SyncNext ==
    \/ SyncTick
    \/ DispatchUpdateFlow(SyncTasks)
    \/ DispatchUpdateStats(SyncTasks)
    \/ DispatchUpdatePredictions(SyncTasks)
    \/ DispatchSyncTime(SyncTasks)

SpecSync == SyncInit /\ [][SyncNext]_vars

-----------------------------------------------------------------------------
(* The notification model: the rule model under the configurations that    *)
(* loadConfig can read, with the operator toggling the valve                *)

NotifyInit == Boot({DefaultConfig, NotifyConfig, SilentConfig}, {FALSE})

NotifyNext ==
    \/ RuleTick
    \/ SampleFlow(RuleFlows)
    \/ DispatchCheckAlerts(RuleTasks)
    \/ ToggleValve

SpecNotify == NotifyInit /\ [][NotifyNext]_vars

-----------------------------------------------------------------------------
(* The lifecycle model: the buffer model with the operator acknowledging   *)
(* the alerts over the web interface and typing "reset" on the serial line *)

LifeInit == Boot({DefaultConfig}, {FALSE})

\* loop(): server.handleClient() and the serial commands run between two
\* calls of runScheduledTasks(); the operator acts once the alert buffer
\* is about to go round.
LifeAcknowledge ==
    /\ Quiet(BufferTasks)
    /\ alertCount >= MAX_ALERTS - 2
    /\ AcknowledgeAll
LifeReset ==
    /\ Quiet(BufferTasks)
    /\ alertCount >= MAX_ALERTS - 2
    /\ SerialReset

LifeNext ==
    \/ BufferTick
    \/ DispatchUpdateFlow(BufferTasks)
    \/ DispatchCheckAlerts(BufferTasks)
    \/ DispatchUpdateStats(BufferTasks)
    \/ DispatchUpdateBilling(BufferTasks)
    \/ DispatchCheckSystemHealth(BufferTasks)
    \/ LifeAcknowledge
    \/ LifeReset

SpecLife == LifeInit /\ [][LifeNext]_vars

-----------------------------------------------------------------------------
(* The wrap model: the scheduler over the 49.7 days in which millis() goes *)
(* round, in half hours up to the last one and in tens of seconds across   *)
(* the wrap                                                                 *)

WrapTasks == {"UpdateWaterQuality", "SaveHistory"}

\* The steps of the clock are multiples of 10 s and 2^32 ms is not, so the
\* clock is off the 10 s marks counted from boot once it has wrapped.
Wrapped == (now - BootTime) % Ms(10000) # 0

\* Time passes once the pass has dispatched what was due.
WrapTick ==
    /\ Quiet(WrapTasks)
    /\ \E d \in {Ms(10000), Ms(20000), Ms(1800000)} :
          /\ IF d = Ms(1800000)
                THEN ~Wrapped /\ now + d < MillisWrap
                ELSE \/ ~Wrapped /\ now + Ms(1800000) >= MillisWrap
                     \/ now + d <= Ms(MaxWrapSecs * 1000)
          /\ now' = (now + d) % MillisWrap
    /\ UNCHANGED <<pulseVars, flowRate, totalVars, notPulseData, tasks,
                   schedVars>>

WrapInit == Boot({DefaultConfig}, {FALSE})

WrapNext ==
    \/ WrapTick
    \/ DispatchUpdateWaterQuality(WrapTasks)
    \/ DispatchSaveHistory(WrapTasks)

SpecWrap == WrapInit /\ [][WrapNext]_vars

-----------------------------------------------------------------------------
(* The statistics model: UpdateStats every 30 s over two rounds of the     *)
(* percentile window                                                        *)

StatTasks == {"UpdateStats"}
StatFlows == {0, 450, 2000}

\* A sawtooth of rates, 100 different ones in every window
SawFlow(k) == ((37 * k) % 101) * 100

\* 30 s pass once the pass has dispatched what was due; flow.flowRate is
\* then what updateFlowData has computed last: any of StatFlows for the
\* first samples, the sawtooth afterwards.
StatTick ==
    /\ Quiet(StatTasks)
    /\ sampleCount < MaxStatSamples
    /\ now' = now + Ms(30000)
    /\ flowRate' \in IF sampleCount < MaxFreeSamples
                         THEN StatFlows ELSE {SawFlow(sampleCount)}
    /\ UNCHANGED <<pulseVars, totalVars, notPulseData, tasks, schedVars>>

StatInit == Boot({DefaultConfig}, BOOLEAN)

StatNext == StatTick \/ DispatchUpdateStats(StatTasks)

SpecStats == StatInit /\ [][StatNext]_vars

-----------------------------------------------------------------------------
(* The liveness model: the scheduler with the clock going round for ever,  *)
(* modulo 2^32 ms, and the loop iterating for ever.  It dispatches the     *)
(* tasks whose functions keep no count of their calls.                     *)

LiveTasks == {"UpdateWaterQuality", "UpdateLED", "SaveHistory"}

\* The clock moves by a short step, 16.384 s, at most MaxLiveSteps times
\* after each mark, and then on to the next mark; the marks are 2^22 ms
\* apart, 1024 to a round of the counter.
LiveStep == Ms(16384)
LiveMark == Ms(4194304)
LivePhase == (now - BootTime) % LiveMark

\* Time passes once the pass has dispatched what was due.
LiveTick ==
    /\ Quiet(LiveTasks)
    /\ \E d \in {LiveStep, LiveMark - LivePhase} :
          /\ d = LiveStep => LivePhase < MaxLiveSteps * LiveStep
          /\ now' = (now + d) % MillisWrap
    /\ UNCHANGED <<pulseVars, flowRate, totalVars, notPulseData, tasks,
                   schedVars>>

LiveInit == Boot({DefaultConfig}, {FALSE})

LiveNext ==
    \/ LiveTick
    \/ DispatchUpdateWaterQuality(LiveTasks)
    \/ DispatchUpdateLED(LiveTasks)
    \/ DispatchSaveHistory(LiveTasks)

\* loop() keeps iterating, so a pass that has a task to dispatch dispatches
\* it, and millis() keeps advancing.
LiveFairness ==
    /\ WF_vars(LiveTick)
    /\ WF_vars(DispatchUpdateWaterQuality(LiveTasks))
    /\ WF_vars(DispatchUpdateLED(LiveTasks))
    /\ WF_vars(DispatchSaveHistory(LiveTasks))

SpecLive == LiveInit /\ [][LiveNext]_vars /\ LiveFairness

-----------------------------------------------------------------------------
(* C1: no sensor edge is lost or double-counted: the edges produced since  *)
(* boot equal the sum of the pulse counts drained by updateFlowData plus   *)
(* the current pulseCount.                                                 *)
C1_NoEdgeLost ==
    edgesProduced = drainedTotal + pulseCount

(* C2: between updateFlowData's read of pulseCount and its reset to 0 the  *)
(* interrupt handler does not run: the count stays the value that was      *)
(* converted, and the value the reset discards is that value.              *)
C2_ReadIsDiscarded ==
    /\ ufPc = "read" => pulseCount = ufLitres
    /\ ufPc = "reset" => ufDiscarded = ufLitres

\* An edge arrived inside the window of a drain that converted two pulses.
C2_Witness ==
    /\ ufPc = "reset"
    /\ ufLitres = 2
    /\ ufDiscarded = 2
    /\ edgesProduced = 3

(* C3: in a run of checkAlerts dispatches that all observe the rate        *)
(* strictly inside the leak band, at most one Leak alert is inserted into  *)
(* the alert buffer, and exactly one once a dispatch of the run has come   *)
(* more than anomalyWindow after its first.                                *)
C3_OneLeakPerEpisode ==
    /\ episodeLeaks <= 1
    /\ (/\ bandSince # -1
        /\ tasks[TaskId("CheckAlerts")].lastRun - bandSince > anomalyWindow)
       => episodeLeaks = 1

(* C4: after a checkAlerts dispatch that ends a run of dispatches, all     *)
(* observing the rate strictly inside the leak band, which has lasted at   *)
(* least anomalyWindow, the valve is closed when autoValveShutdown is set. *)
C4_ShutdownAtWindow ==
    [][(/\ caRuns' = caRuns + 1
        /\ bandSince' # -1
        /\ now - bandSince' >= anomalyWindow
        /\ config.autoValveShutdown)
       => ~valve']_vars

(* C4, amended: the same for a run that has lasted more than anomalyWindow,*)
(* whatever the alert buffer holds, whatever was acknowledged and whether  *)
(* or not the operator opened the valve since the previous dispatch.       *)
C4_ShutdownPastWindow ==
    [][(/\ caRuns' = caRuns + 1
        /\ bandSince' # -1
        /\ now - bandSince' > anomalyWindow
        /\ config.autoValveShutdown)
       => ~valve']_vars

\* The operator opened the valve, and the leak rule has closed it on a
\* dispatch whose Leak alert was suppressed as a duplicate.
C4_Witness ==
    /\ ~valve
    /\ \E i \in 0..(MAX_EVENTS - 1) : events[i].message = <<"Valve opened">>
    /\ bandSince # -1
    /\ now - bandSince > anomalyWindow
    /\ \E k \in 1..Len(calls) :
          calls[k].type = "Leak" /\ ~calls[k].inserted

(* C5: a checkAlerts dispatch that observes the rate outside the leak band *)
(* (at or below leakThreshold, at or above maxFlowThreshold) puts the leak *)
(* timer back to idle and fires no Leak alert; a dispatch that observes    *)
(* the band again after that starts the timer at its own time; and a Leak  *)
(* alert is fired only by a dispatch whose unbroken run of in-band         *)
(* observations is longer than anomalyWindow.                              *)
C5_LeakTimerReset ==
    [][caRuns' = caRuns + 1 =>
        /\ (flowRate <= leakThreshold \/ flowRate >= maxFlowThreshold)
              => /\ ~leakChecking'
                 /\ \A k \in 1..Len(calls') : calls'[k].type # "Leak"
        /\ (leakThreshold < flowRate /\ flowRate < maxFlowThreshold
             /\ bandSince = -1)
              => leakChecking' /\ leakStartTime' = now
        /\ (\E k \in 1..Len(calls') : calls'[k].type = "Leak")
              => bandSince' # -1 /\ now - bandSince' > anomalyWindow]_vars

\* A running timer was put back to idle without a Leak alert, and a later
\* dispatch has started it afresh.
C5_Witness ==
    /\ bandBreaks >= 1
    /\ leakChecking
    /\ leakStartTime = now
    /\ leakStartTime > BootTime
    /\ episodeLeaks = 0
    /\ tasks[TaskId("CheckAlerts")].lastRun = now

(* C8: addAlert(type, message, severity) called while a slot of the alert  *)
(* buffer holds an active record with that type and message leaves the     *)
(* alert buffer, alertIndex and the event log unchanged and commands no    *)
(* sound and no notification.                                              *)
C8_DuplicateSuppressed ==
    \A i \in 0..(MAX_ALERTS - 1), severity \in 1..4 :
        alerts[i].active =>
            LET s == addAlert(Store, alerts[i].type, alerts[i].message,
                              severity)
            IN  /\ ProgramPart(s) = ProgramPart(Store)
                /\ Commands(s) = Commands(Store)
                /\ s.alertCount = alertCount
                /\ s.eventCount = eventCount

\* checkAlerts has called addAlert for a Critical alert that was still
\* active, in a configuration that notifies, and the buffer is full.
C8_Witness ==
    /\ \E k \in 1..Len(calls) :
          calls[k].severity = 4 /\ ~calls[k].inserted
    /\ config.emailAlerts /\ config.smsAlerts /\ config.soundAlerts
    /\ notifications > 0
    /\ \A i \in 0..(MAX_ALERTS - 1) : alerts[i].active

(* C6: a pass of runScheduledTasks calls the function of a task at most    *)
(* once, and exactly once when one or more whole intervals of the task     *)
(* have gone by since its lastRun, however many; the task then has lastRun *)
(* equal to the pass time, and two passes that call the same task are at   *)
(* least its interval apart.                                               *)
C6_CatchUpOnce ==
    \A i \in 1..Len(tasks) :
        LET calls_i == Cardinality({k \in 1..Len(runLog) : runLog[k] = i})
            missed == (schedNow - passStart[i].lastRun)
                          \div passStart[i].interval
        IN  /\ calls_i <= 1
            /\ (schedPc = "delay" /\ passStart[i].enabled /\ missed >= 1)
                  => calls_i = 1 /\ tasks[i].lastRun = schedNow
            /\ prevRanAt[i] # -1
                  => lastRanAt[i] - prevRanAt[i] >= tasks[i].interval

\* A pass that came three or more intervals after a task's last run has
\* called the task once.
C6_Witness ==
    /\ schedPc = "delay"
    /\ \E i \in 1..Len(tasks) :
          /\ passStart[i].lastRun > 0
          /\ schedNow - passStart[i].lastRun >= 3 * passStart[i].interval
          /\ Cardinality({k \in 1..Len(runLog) : runLog[k] = i}) = 1
          /\ tasks[i].lastRun = schedNow

(* C7: in a pass of runScheduledTasks with pass time schedNow the calls    *)
(* are in registration order; of the tasks the scan is through with, the   *)
(* ones called are the enabled ones whose lastRun was an interval or more  *)
(* before schedNow, and they have lastRun = schedNow while the others keep *)
(* their lastRun; a task the scan has not finished keeps its lastRun, and  *)
(* only the task being called can be in the pass's calls.                  *)
C7_DispatchRule ==
    LET n == Len(tasks)
        WasDue(i) == /\ passStart[i].enabled
                     /\ schedNow - passStart[i].lastRun
                            >= passStart[i].interval
        Ran(i) == \E k \in 1..Len(runLog) : runLog[k] = i
        through == IF schedPc \in {"scan", "body"} THEN schedI - 1 ELSE n
    IN  passes > 0 =>
          /\ \A k \in 1..(Len(runLog) - 1) : runLog[k] < runLog[k + 1]
          /\ \A i \in 1..n :
                IF i <= through
                   THEN /\ Ran(i) <=> WasDue(i)
                        /\ tasks[i].lastRun = IF WasDue(i)
                                                 THEN schedNow
                                                 ELSE passStart[i].lastRun
                   ELSE /\ tasks[i].lastRun = passStart[i].lastRun
                        /\ Ran(i) => /\ i = schedI
                                      /\ schedPc = "body"
                                      /\ WasDue(i)

\* A finished pass called several tasks, one of them exactly an interval
\* after its last run, and left a task that was not due alone.
C7_Witness ==
    /\ schedPc = "delay"
    /\ passes >= 2
    /\ Len(runLog) >= 2
    /\ \E i \in 1..Len(tasks) :
          /\ passStart[i].lastRun > 0
          /\ schedNow - passStart[i].lastRun = passStart[i].interval
          /\ tasks[i].lastRun = schedNow
    /\ \E i \in 1..Len(tasks) :
          /\ passStart[i].lastRun > 0
          /\ schedNow - passStart[i].lastRun < passStart[i].interval
          /\ tasks[i].lastRun = passStart[i].lastRun

(* C9: eventIndex stays in 0..99, alertIndex in 0..49 and the index of the *)
(* percentile window in 0..99; a step that logs k events writes the k      *)
(* slots from eventIndex on, modulo the capacity, and no other slot, and   *)
(* advances eventIndex by k modulo the capacity; likewise the alert buffer *)
(* for the alerts a step inserts and the percentile window for the sample  *)
(* of an updateStatistics call; so each index is the number of insertions  *)
(* modulo the capacity and the insertion after a full round writes slot 0. *)
C9_RingBuffers ==
    [][LET ke == eventCount' - eventCount
           ka == alertCount' - alertCount
           eventSlots == {(eventIndex + j) % MAX_EVENTS : j \in 0..(ke - 1)}
           alertSlots == {(alertIndex + j) % MAX_ALERTS : j \in 0..(ka - 1)}
       IN  /\ eventIndex' \in 0..(MAX_EVENTS - 1)
           /\ alertIndex' \in 0..(MAX_ALERTS - 1)
           /\ bufferIndex' \in 0..99
           /\ DOMAIN events' = 0..(MAX_EVENTS - 1)
           /\ DOMAIN alerts' = 0..(MAX_ALERTS - 1)
           /\ DOMAIN flowBuffer' = 0..99
           /\ eventIndex' = (eventIndex + ke) % MAX_EVENTS
           /\ eventIndex' = eventCount' % MAX_EVENTS
           /\ \A i \in 0..(MAX_EVENTS - 1) :
                 IF i \in eventSlots
                    THEN events'[i].timestamp = now /\ events'[i].type # ""
                    ELSE events'[i] = events[i]
           /\ alertIndex' = (alertIndex + ka) % MAX_ALERTS
           /\ alertIndex' = alertCount' % MAX_ALERTS
           /\ \A i \in 0..(MAX_ALERTS - 1) :
                 IF i \in alertSlots
                    THEN alerts'[i].timestamp = now /\ alerts'[i].active
                    ELSE alerts'[i] = alerts[i]
           /\ bufferIndex' = sampleCount' % 100
           /\ IF sampleCount' = sampleCount + 1
                 THEN /\ bufferIndex' = (bufferIndex + 1) % 100
                      /\ flowBuffer' =
                             [flowBuffer EXCEPT ![bufferIndex] = flowRate]
                 ELSE UNCHANGED <<bufferIndex, flowBuffer>>]_vars

\* Each of the three buffers has gone round: more than 50 alerts inserted,
\* more than 100 events logged, more than 100 samples stored.
C9_Witness ==
    /\ alertCount > MAX_ALERTS
    /\ eventCount > MAX_EVENTS
    /\ sampleCount > 100
    /\ alerts[0].type = "Budget"

C11_PulseToFlow ==
    [][lastUpdate' # lastUpdate =>
        LET p == pulseCount
            d == now - lastUpdate
        IN  /\ d >= UPDATE_INTERVAL
            /\ flowRate' * 3 * d <= p * 100000
            /\ p * 100000 < (flowRate' + 1) * 3 * d
            /\ 60 * instantaneousFlow' <= 1000 * flowRate' + 999
            /\ 1000 * flowRate' <= 60 * instantaneousFlow' + 59
            /\ p = 0 => flowRate' = 0 /\ instantaneousFlow' = 0
            /\ (p = 900 /\ d = Ms(60000)) => flowRate' = 2000]_vars

\* A drain of 900 pulses, a minute after the previous drain, has given
\* 2 L/min.
C11_Witness ==
    /\ ufLitres = 900
    /\ ufDelta = Ms(60000)
    /\ lastUpdate = now
    /\ flowRate = 2000
    /\ instantaneousFlow = 33333

(* C12: every dispatch of the UpdateFlow task by runScheduledTasks (the    *)
(* call after which the task's lastRun is advanced) reads pulseCount and   *)
(* resets it to 0 and updates flowRate and the totals from the value read. *)
C12_DrainPerDispatch ==
    [][(/\ schedPc = "body"
        /\ tasks[schedI].name = "UpdateFlow"
        /\ schedPc' = "scan")
       => /\ tasks'[schedI].lastRun = schedNow
          /\ pulseCount' = 0
          /\ lastUpdate' = now
          /\ drainedTotal' = drainedTotal + pulseCount
          /\ totalLitres' = totalLitres + pulseCount
          /\ flowRate' = FlowRateOf(pulseCount, now - lastUpdate)]_vars

(* C13: the valve is closed when setup() returns, and a step that opens   *)
(* it is an operator command (serial "valve on", or the toggle applied to  *)
(* a closed valve), which logs "Valve opened"; no dispatch of a scheduled  *)
(* task, no alert rule and no daily reset opens the valve.                 *)
C13_ValveOpenedByOperator ==
    /\ ~valve
    /\ [][(~valve /\ valve') =>
             /\ opCommands' = opCommands + 1
             /\ caRuns' = caRuns
             /\ boundaries' = boundaries
             /\ tasks' = tasks
             /\ events'[eventIndex].message = <<"Valve opened">>]_vars

\* The valve, closed through checkAlerts dispatches and a daily reset, has
\* been opened by the only operator command of the run.
C13_Witness ==
    /\ valve
    /\ opCommands = 1
    /\ boundaries = 1
    /\ caRuns >= 3

(* C14: an invocation of pulseCounter() (a sensor edge with the handler   *)
(* attached) increments pulseCount by exactly 1 and changes no other       *)
(* variable of the firmware: not the clock, the flow rate, the totals, the *)
(* alerts, the events, the valve, the task table or any other.             *)
C14_HandlerOnlyCounts ==
    [][(edgesProduced' = edgesProduced + 1 /\ intrAttached) =>
          /\ pulseCount' = pulseCount + 1
          /\ UNCHANGED <<now, intrAttached, ufPc, ufNow, ufDelta, ufLitres,
                         lastUpdate, flowRate, instantaneousFlow,
                         drainedTotal, ufDiscarded, totalVars, storeVars,
                         predVars, zoneVars, syncVars,
                         opCommands, caVars, config, timeSynced, healthVars,
                         qualityVars, billingVars, statVars, costVars,
                         resetVars, tasks, schedVars>>]_vars

\* The handler has run for each of three edges, none of them drained yet.
C14_Witness ==
    /\ edgesProduced = 3
    /\ pulseCount = 3
    /\ intrAttached
    /\ drainedTotal = 0

(* C15: a drain by updateFlowData adds the volume it read, which is not   *)
(* negative, to each of totalLitres, dailyLitres, weeklyLitres,            *)
(* monthlyLitres and yearlyLitres; no step decreases totalLitres or        *)
(* yearlyLitres; a step that decreases dailyLitres, weeklyLitres or        *)
(* monthlyLitres is the loop's daily reset or the serial reset command and *)
(* leaves the total it decreases at 0.                                     *)
C15_TotalsMonotonic ==
    [][LET v == drainedTotal' - drainedTotal
           IsReset == \/ boundaries' = boundaries + 1
                      \/ opCommands' = opCommands + 1
       IN  /\ v >= 0
           /\ totalLitres' = totalLitres + v
           /\ yearlyLitres' = yearlyLitres + v
           /\ lastUpdate' # lastUpdate =>
                 /\ v = pulseCount
                 /\ dailyLitres' = dailyLitres + v
                 /\ weeklyLitres' = weeklyLitres + v
                 /\ monthlyLitres' = monthlyLitres + v
           /\ dailyLitres' < dailyLitres => dailyLitres' = 0 /\ IsReset
           /\ weeklyLitres' < weeklyLitres => weeklyLitres' = 0 /\ IsReset
           /\ monthlyLitres' < monthlyLitres
                 => monthlyLitres' = 0 /\ IsReset]_vars

\* A drain has added to all five totals after a serial reset and after the
\* seventh daily reset: the totals of the periods differ from one another.
C15_Witness ==
    /\ boundaries = 7
    /\ opCommands = 1
    /\ lastUpdate = now
    /\ dailyLitres > 0
    /\ dailyLitres < monthlyLitres
    /\ weeklyLitres < monthlyLitres
    /\ monthlyLitres < yearlyLitres
    /\ yearlyLitres = totalLitres

(* C16: a checkAlerts dispatch that finds flowRate above maxFlowThreshold *)
(* calls addAlert for a HighFlow alert of severity 3, and while the rate   *)
(* stays above the ceiling, whatever values it takes there, no second      *)
(* HighFlow record is inserted while the first is active: the alert buffer *)
(* holds at most one active HighFlow alert.  (The call is looked for after *)
(* the dispatches that checkSystemHealth has not followed in the same      *)
(* pass.)                                                                  *)
C16_OneActiveHighFlow ==
    /\ (/\ caRuns > 0
        /\ tasks[TaskId("CheckAlerts")].lastRun = now
        /\ tasks[TaskId("CheckSystemHealth")].lastRun # now
        /\ flowRate > maxFlowThreshold)
       => \E k \in 1..Len(calls) :
             calls[k].type = "HighFlow" /\ calls[k].severity = 3
    /\ Cardinality({i \in 0..(MAX_ALERTS - 1) :
                       alerts[i].active /\ alerts[i].type = "HighFlow"}) <= 1

(* C19: the alert buffer holds a Memory alert only if checkSystemHealth   *)
(* has taken a sample of the free memory: checkAlerts raises no Memory     *)
(* alert before the first dispatch of CheckSystemHealth.                   *)
C19_MemoryAfterSample ==
    \A i \in 0..(MAX_ALERTS - 1) :
        (alerts[i].active /\ alerts[i].type = "Memory")
            => tasks[TaskId("CheckSystemHealth")].lastRun > 0

-----------------------------------------------------------------------------
(* C17: after every recomputation of the predictions the confidence score  *)
(* is a number between 0 and 100 percent, also when the seven-slot history *)
(* is all zero.                                                            *)

C17_ConfidenceInRange ==
    lastPrediction > 0 =>
        /\ ~confidenceNaN
        /\ 0 <= confidenceScore
        /\ confidenceScore <= 100000

-----------------------------------------------------------------------------
(* C18: after a recomputation, a history of seven identical values v has   *)
(* confidence 100 percent; a history of six values v and one value 10 * v  *)
(* has a confidence strictly below 100 percent; and a history with the     *)
(* same mean as the stored one and at least its standard deviation (here   *)
(* the stored history with HourPulses moved from one slot to another) has  *)
(* at most its confidence.                                                 *)

C18_ConfidenceVersusVariance ==
    lastPrediction > 0 =>
        /\ (\A i \in 0..6 : last7Days[i] = last7Days[0]) =>
               ~confidenceNaN /\ confidenceScore = 100000
        /\ (\E j \in 0..6 : \A i \in 0..6 :
                last7Days[i] = IF i = j THEN 10 * last7Days[(j + 1) % 7]
                                        ELSE last7Days[(j + 1) % 7]) =>
               confidenceNaN \/ confidenceScore < 100000
        /\ \A i, j \in 0..6 :
               LET g == [last7Days EXCEPT ![i] = @ - HourPulses,
                                          ![j] = @ + HourPulses]
               IN  (/\ i # j
                    /\ last7Days[i] >= HourPulses
                    /\ Sum7(last7Days) > 0
                    /\ Spread7(g) >= Spread7(last7Days)) =>
                       ConfidenceOf(g) <= confidenceScore

-----------------------------------------------------------------------------
(* C20: whenever updateStatistics stores a daily total into the ring and   *)
(* into dailyAverage, the loop has not yet done the daily reset of that    *)
(* day boundary (as many resets as samples have gone before), and the      *)
(* stored value is the volume of the whole day: for the first day, with no *)
(* "reset" command given, everything counted since boot.                   *)

C20_SampleBeforeReset ==
    [][lastDayUpdate' # lastDayUpdate =>
          /\ boundaries % 7 = dayIndex
          /\ dailyTotals'[dayIndex] = dailyLitres
          /\ dailyAverage' = dailyLitres
          /\ (boundaries = 0 /\ opCommands = 0) =>
                 dailyAverage' = totalLitres]_vars

-----------------------------------------------------------------------------
(* C21: in a checkAlerts call that takes the once-per-minute sample (more  *)
(* than 60 s after the last one), addAlert is called for a SuddenDrop      *)
(* alert, with severity 3, exactly when the rate recorded at the previous  *)
(* sample was above 1.0 L/min, the current rate is above 0.1 L/min and the *)
(* current rate is lower than the recorded one by more than                *)
(* suddenDropThreshold percent; a call that takes no sample raises none;   *)
(* a sample replaces the recorded rate and time by the current ones, and a *)
(* call without a sample leaves them alone.                                *)

C21_SuddenDrop ==
    [][caRuns' # caRuns =>
          LET sampled == now - lastCheckTime > Ms(60000)
              dropped == (lastFlowRate - flowRate) * 100000
                             > suddenDropThreshold * lastFlowRate
              any == \E k \in 1..Len(calls') : calls'[k].type = "SuddenDrop"
              raised == \E k \in 1..Len(calls') :
                            /\ calls'[k].type = "SuddenDrop"
                            /\ calls'[k].severity = 3
          IN  /\ (sampled /\ lastFlowRate > 1000 /\ flowRate > 100
                    /\ dropped) => raised
              /\ any => (raised /\ sampled /\ lastFlowRate > 1000
                           /\ flowRate > 100 /\ dropped)
              /\ lastFlowRate' = IF sampled THEN flowRate ELSE lastFlowRate
              /\ lastCheckTime' = IF sampled THEN now ELSE lastCheckTime]_vars

\* A sample has found a drop of 75 percent, from 2.0 to 0.5 L/min, and
\* inserted the alert.
C21_Witness ==
    /\ lastCheckTime = now
    /\ lastFlowRate = 500
    /\ \E k \in 1..Len(calls) :
          /\ calls[k].type = "SuddenDrop"
          /\ calls[k].inserted
          /\ calls[k].message = <<"Flow dropped by ", 7500,
                                   "% in one minute">>

\* C21 as stated: the alert is raised for every current rate, also one of
\* 0.1 L/min or less.
C21_SuddenDropAnyRate ==
    [][caRuns' # caRuns =>
          LET sampled == now - lastCheckTime > Ms(60000)
              dropped == (lastFlowRate - flowRate) * 100000
                             > suddenDropThreshold * lastFlowRate
              raised == \E k \in 1..Len(calls') :
                            /\ calls'[k].type = "SuddenDrop"
                            /\ calls'[k].severity = 3
          IN  (sampled /\ lastFlowRate > 1000 /\ dropped) => raised]_vars

-----------------------------------------------------------------------------
(* C24: a checkAlerts call calls addAlert for a NoUsage alert, with        *)
(* severity 2, if and only if the rate it finds is 0.1 L/min or less and   *)
(* more than noUsageThreshold hours have gone since the last call that     *)
(* found a rate above 0.1 L/min (since time 0 if there was none); a call   *)
(* that finds a rate above 0.1 L/min restarts the idle period.             *)

C24_NoUsage ==
    [][caRuns' # caRuns =>
          LET raised == \E k \in 1..Len(calls') :
                            /\ calls'[k].type = "NoUsage"
                            /\ calls'[k].severity = 2
          IN  /\ raised <=>
                    /\ flowRate <= 100
                    /\ now - lastUsageTime > Ms(noUsageThreshold * 3600)
              /\ lastUsageTime' = IF flowRate > 100 THEN now
                                                    ELSE lastUsageTime]_vars

-----------------------------------------------------------------------------
(* C22: in every recomputation of updatePredictions the weight applied to  *)
(* a history slot does not grow with the slot's age (age 0 is the slot     *)
(* just written), the slot just written has the largest weight, the seven  *)
(* weights sum to 1, and the prediction before the seasonal adjustment     *)
(* (a seventh of the weekly prediction) is the weighted sum of the slots.  *)

C22_WeightByAge ==
    [][lastPrediction' # lastPrediction =>
          LET Applied(a) ==
                  WeightedSum([j \in 0..6 |->
                                  IF j = (dayPtr - a + 7) % 7 THEN 1 ELSE 0],
                              dayPtr')
          IN  /\ \A a \in 0..5 : Applied(a) >= Applied(a + 1)
              /\ \A a \in 0..6 : Applied(0) >= Applied(a)
              /\ WeightSum = 100
              /\ predictedWeeklyUsage'
                     = 7 * WeightedSum(last7Days', dayPtr')]_vars

-----------------------------------------------------------------------------
(* C23: in every updateZoneData call, for each enabled simulated zone: the *)
(* leak timer runs afterwards when the zone's flow exceeds the zone's own  *)
(* customThreshold, and otherwise timer and flag are idle (leakStartTime   *)
(* 0, leakDetected false); a ZoneLeak alert naming the zone is raised, and *)
(* leakDetected set, when the flow exceeds the threshold and the timer has *)
(* run for more than 5 minutes; and the zone with a sensor of its own      *)
(* stays as it was.                                                        *)

C23_ZoneLeak ==
    [][zones' # zones =>
          \A i \in 0..4 :
             IF zones[i].enabled /\ zones[i].sensorPin = -1
                THEN LET over == zones'[i].flowRate > zones[i].customThreshold
                         late == /\ zones[i].leakStartTime # 0
                                 /\ now - zones[i].leakStartTime > Ms(300000)
                         raised == \E k \in 1..Len(calls') :
                                      /\ calls'[k].type = "ZoneLeak"
                                      /\ calls'[k].message[2] = zones[i].name
                     IN  /\ over => zones'[i].leakStartTime # 0
                         /\ ~over => /\ zones'[i].leakStartTime = 0
                                      /\ ~zones'[i].leakDetected
                         /\ (over /\ late) =>
                                raised /\ zones'[i].leakDetected
                         /\ raised => over /\ late
                ELSE zones'[i] = zones[i]]_vars

-----------------------------------------------------------------------------
(* C25: while timeSynced is false, updateStatistics leaves hourlyUsage and *)
(* currentHour alone and updatePredictions leaves seasonalFactor alone and *)
(* does not scale predictedDailyUsage (it stays a seventh of the weekly    *)
(* prediction); a failed syncTime attempt leaves timeSynced as it was,     *)
(* logs one event and changes nothing else of the program's data, except   *)
(* that timeInfo.timeinfo (tm_hour, tm_mon) holds what getLocalTime left   *)
(* in it.                                                                  *)

C25_UnsyncedCalendar ==
    [][
          /\ (sampleCount' # sampleCount /\ ~timeSynced) =>
                UNCHANGED <<hourlyUsage, currentHour>>
          /\ (lastPrediction' # lastPrediction /\ ~timeSynced) =>
                /\ seasonalFactor' = seasonalFactor
                /\ 7 * predictedDailyUsage' = predictedWeeklyUsage'
          /\ (/\ tasks'[TaskId("SyncTime")].lastRun
                     # tasks[TaskId("SyncTime")].lastRun
              /\ ~timeSynced') =>
                /\ timeSynced' = timeSynced
                /\ eventCount' = eventCount + 1
                /\ events' = [events EXCEPT ![eventIndex] =
                                 [type |-> "System",
                                  message |-> <<"Time synchronization failed">>,
                                  timestamp |-> now, priority |-> 3,
                                  source |-> "Time"]]
                /\ UNCHANGED <<alerts, alertIndex, valve, tones,
                               notifications, alertCount, lastSync,
                               pulseVars, flowRate, totalVars, opCommands,
                               caVars, config, healthVars, qualityVars,
                               billingVars, costVars, resetVars, zoneVars>>
                /\ UNCHANGED <<sampleCount, averageFlow, peakFlow, minFlow,
                               hourlyUsage, currentHour, flowBuffer,
                               bufferIndex, flowPercentiles, dailyTotals,
                               dayIndex, lastDayUpdate, weeklyAverage,
                               dailyAverage, usageTrend>>
                /\ UNCHANGED <<last7Days, dayPtr, lastPrediction,
                               predictedDailyUsage, predictedWeeklyUsage,
                               predictedMonthlyUsage, seasonalFactor,
                               confidenceScore, confidenceNaN>>
      ]_vars

\* An hour after a boot without time sync the statistics and the
\* predictions have run with water used, and the sync attempt of the same
\* pass has failed.
C25_Witness ==
    /\ ~timeSynced
    /\ now > BootTime
    /\ tasks[TaskId("SyncTime")].lastRun = now
    /\ events[(eventIndex + MAX_EVENTS - 1) % MAX_EVENTS].message
           = <<"Time synchronization failed">>
    /\ sampleCount > 0
    /\ lastPrediction = now
    /\ predictedDailyUsage > 0
    /\ seasonalFactor = 1000

\* C25 as stated: the failed attempt changes nothing but the event log,
\* timeInfo.timeinfo included.
C25_FailedSyncChangesNothing ==
    [][
          /\ (sampleCount' # sampleCount /\ ~timeSynced) =>
                UNCHANGED <<hourlyUsage, currentHour>>
          /\ (lastPrediction' # lastPrediction /\ ~timeSynced) =>
                /\ seasonalFactor' = seasonalFactor
                /\ 7 * predictedDailyUsage' = predictedWeeklyUsage'
          /\ (/\ tasks'[TaskId("SyncTime")].lastRun
                     # tasks[TaskId("SyncTime")].lastRun
              /\ ~timeSynced') =>
                /\ timeSynced' = timeSynced
                /\ eventCount' = eventCount + 1
                /\ events' = [events EXCEPT ![eventIndex] =
                                 [type |-> "System",
                                  message |-> <<"Time synchronization failed">>,
                                  timestamp |-> now, priority |-> 3,
                                  source |-> "Time"]]
                /\ UNCHANGED <<alerts, alertIndex, valve, tones,
                               notifications, alertCount, lastSync,
                               pulseVars, flowRate, totalVars, opCommands,
                               caVars, config, healthVars, qualityVars,
                               billingVars, costVars, resetVars, zoneVars>>
                /\ UNCHANGED <<statVars, predVars>>
      ]_vars

-----------------------------------------------------------------------------
(* C26: an addAlert call that is not suppressed commands the sound pattern *)
(* when soundAlerts is on and the severity is 3 or more, one notification  *)
(* for each of emailAlerts and smsAlerts that is on when the severity is 3 *)
(* or more, and neither at severity 1 or 2; it appends one Alert event to  *)
(* the event log, after one Notification event for each notification it    *)
(* has commanded.  Checked for a call of each severity in every state, and *)
(* for the insertions of every step.                                       *)

C26_SideEffectsBySeverity ==
    /\ [](\A severity \in 1..4 :
             LET s == addAlert(Store, "Probe", <<"Probe">>, severity)
                 high == IF severity >= 3 THEN 1 ELSE 0
                 sound == IF config.soundAlerts THEN 1 ELSE 0
                 mails == (IF config.emailAlerts THEN 1 ELSE 0)
                              + (IF config.smsAlerts THEN 1 ELSE 0)
             IN  /\ s.alertCount = alertCount + 1
                 /\ s.tones - tones = high * sound
                 /\ s.notifications - notifications = high * mails
                 /\ s.eventCount - eventCount = 1 + high * mails
                 /\ s.events[(s.eventIndex + MAX_EVENTS - 1) % MAX_EVENTS]
                        = [type |-> "Alert", message |-> <<"Probe">>,
                           timestamp |-> now, priority |-> severity,
                           source |-> "Probe"])
    /\ [][alertCount' # alertCount =>
             LET high == Cardinality({k \in 1..Len(calls') :
                                         /\ calls'[k].inserted
                                         /\ calls'[k].severity >= 3})
                 sound == IF config.soundAlerts THEN 1 ELSE 0
                 mails == (IF config.emailAlerts THEN 1 ELSE 0)
                              + (IF config.smsAlerts THEN 1 ELSE 0)
             IN  /\ tones' - tones = high * sound
                 /\ notifications' - notifications = high * mails]_vars

\* With e-mail and SMS alerts on, checkAlerts has inserted a High alert,
\* sounding the tone and sending two notifications, and the operator's
\* valve command has then inserted a Medium alert.
C26_Witness ==
    /\ config.emailAlerts /\ config.smsAlerts /\ config.soundAlerts
    /\ \E i \in 0..(MAX_ALERTS - 1) :
          alerts[i].active /\ alerts[i].type = "HighFlow"
    /\ tones = notifications \div 2
    /\ tones >= 2
    /\ Len(calls) = 1
    /\ calls[1].type = "Valve" /\ calls[1].inserted /\ calls[1].severity = 2

\* C26 as stated: every addAlert call that is not suppressed appends
\* exactly one event.
C26_OneEventPerAlert ==
    /\ [](\A severity \in 1..4 :
             LET s == addAlert(Store, "Probe", <<"Probe">>, severity)
                 high == IF severity >= 3 THEN 1 ELSE 0
                 sound == IF config.soundAlerts THEN 1 ELSE 0
                 mails == (IF config.emailAlerts THEN 1 ELSE 0)
                              + (IF config.smsAlerts THEN 1 ELSE 0)
             IN  /\ s.alertCount = alertCount + 1
                 /\ s.tones - tones = high * sound
                 /\ s.notifications - notifications = high * mails
                 /\ s.eventCount - eventCount = 1
                 /\ s.events[(s.eventIndex + MAX_EVENTS - 1) % MAX_EVENTS]
                        = [type |-> "Alert", message |-> <<"Probe">>,
                           timestamp |-> now, priority |-> severity,
                           source |-> "Probe"])
    /\ [][alertCount' # alertCount =>
             LET high == Cardinality({k \in 1..Len(calls') :
                                         /\ calls'[k].inserted
                                         /\ calls'[k].severity >= 3})
                 sound == IF config.soundAlerts THEN 1 ELSE 0
                 mails == (IF config.emailAlerts THEN 1 ELSE 0)
                              + (IF config.smsAlerts THEN 1 ELSE 0)
             IN  /\ tones' - tones = high * sound
                 /\ notifications' - notifications = high * mails]_vars

-----------------------------------------------------------------------------
(* C27: every slot of the alert buffer that has been written holds an      *)
(* active record; a step changes slot i only by an insertion whose number  *)
(* is i modulo 50, which writes a fresh active, unacknowledged record      *)
(* whatever the record it replaces, so a record is overwritten by the 50th *)
(* insertion after its own and by no earlier one; in every other slot a    *)
(* step changes nothing but the acknowledged flag, which it can only set.  *)
C27_AlertLifecycle ==
    /\ [](\A i \in 0..(MAX_ALERTS - 1) :
             /\ alertCount > i => alerts[i].active
             /\ alerts[i].active => alertCount > i)
    /\ [][LET ka == alertCount' - alertCount
              written == {(alertCount + j) % MAX_ALERTS : j \in 0..(ka - 1)}
          IN  /\ ka \in 0..MAX_ALERTS
              /\ \A i \in 0..(MAX_ALERTS - 1) :
                    IF i \in written
                       THEN /\ alerts'[i].active
                            /\ ~alerts'[i].acknowledged
                            /\ alerts'[i].timestamp = now
                       ELSE /\ alerts'[i] =
                                  [alerts[i] EXCEPT !.acknowledged =
                                       alerts'[i].acknowledged]
                            /\ alerts[i].acknowledged
                                  => alerts'[i].acknowledged]_vars

\* The buffer has gone round after the operator acknowledged the alerts:
\* the acknowledged record of slot 0 has been overwritten by the 51st
\* insertion while the record of slot 49 is still the acknowledged one.
C27_Witness ==
    /\ alertCount > MAX_ALERTS
    /\ alertCount < 2 * MAX_ALERTS - 1
    /\ alerts[MAX_ALERTS - 1].acknowledged
    /\ alerts[MAX_ALERTS - 1].active
    /\ ~alerts[0].acknowledged
    /\ alerts[0].active

-----------------------------------------------------------------------------
(* C28: the registered tasks keep their names, intervals and enabled flags; *)
(* a step that changes a task's lastRun sets it to the time of the pass,    *)
(* which is at least the interval after the old value counted modulo 2^32   *)
(* ms; lastRun takes a smaller value only in the first dispatch after the   *)
(* millisecond counter has wrapped past it; and time passes only when no    *)
(* dispatched task's interval has elapsed, counted modulo 2^32 ms.          *)
C28_LastRunFollowsClock ==
    [][
         /\ Len(tasks') = Len(RegisteredTasks)
         /\ \A i \in 1..Len(RegisteredTasks) :
               /\ tasks'[i].name = RegisteredTasks[i].name
               /\ tasks'[i].interval = RegisteredTasks[i].interval
               /\ tasks'[i].enabled = RegisteredTasks[i].enabled
         /\ \A i \in 1..Len(RegisteredTasks) :
               /\ tasks'[i].lastRun # tasks[i].lastRun =>
                     /\ tasks'[i].lastRun = now
                     /\ (now - tasks[i].lastRun) % MillisWrap
                           >= tasks[i].interval
               /\ tasks'[i].lastRun < tasks[i].lastRun =>
                     now < tasks[i].lastRun
         /\ now' # now =>
               \A m \in WrapTasks :
                   (now - tasks[TaskId(m)].lastRun) % MillisWrap
                       < tasks[TaskId(m)].interval
      ]_vars

\* The counter has wrapped: SaveHistory has run since, UpdateWaterQuality
\* still holds the time of its last run before the wrap.
C28_Witness ==
    /\ Wrapped
    /\ now < Ms(MaxWrapSecs * 1000)
    /\ tasks[TaskId("SaveHistory")].lastRun = now
    /\ tasks[TaskId("UpdateWaterQuality")].lastRun > MillisWrap - Ms(30000)

\* C28 as stated: the registered tasks are unchanged and no task's lastRun
\* ever takes a smaller value.
C28_LastRunNeverFalls ==
    [][
         /\ Len(tasks') = Len(RegisteredTasks)
         /\ \A i \in 1..Len(RegisteredTasks) :
               /\ tasks'[i].name = RegisteredTasks[i].name
               /\ tasks'[i].interval = RegisteredTasks[i].interval
               /\ tasks'[i].enabled = RegisteredTasks[i].enabled
         /\ \A i \in 1..Len(RegisteredTasks) :
               tasks'[i].lastRun >= tasks[i].lastRun
      ]_vars

-----------------------------------------------------------------------------
(* C29: the updateStatistics call that stores the 100th, 200th, ... sample *)
(* sets flowPercentiles to the elements of rank 10, 25, 50, 75 and 90 of   *)
(* the 100 samples of the window in ascending order; every other step      *)
(* leaves flowPercentiles as it was.                                        *)
C29_PercentileCadence ==
    [][IF sampleCount' = sampleCount + 1 /\ sampleCount' % 100 = 0
          THEN /\ bufferIndex' = 0
               /\ flowBuffer'[99] = flowRate
               /\ \A p \in 1..5 :
                     LET rank == <<10, 25, 50, 75, 90>>[p]
                         v == flowPercentiles'[p]
                     IN  /\ \E i \in 0..99 : flowBuffer'[i] = v
                         /\ Cardinality({i \in 0..99 : flowBuffer'[i] < v})
                               < rank
                         /\ Cardinality({i \in 0..99 : flowBuffer'[i] <= v})
                               >= rank
          ELSE flowPercentiles' = flowPercentiles]_vars

\* The window has been filled twice; the percentiles are those of its
\* second round.
C29_Witness ==
    /\ sampleCount = 200
    /\ bufferIndex = 0
    /\ flowPercentiles[1] < flowPercentiles[2]
    /\ flowPercentiles[4] < flowPercentiles[5]
    /\ flowPercentiles[3] = SortedAt(flowBuffer, 49)
    /\ flowBuffer[0] = SawFlow(100)

-----------------------------------------------------------------------------
\* Sum of the first n samples of the window
RECURSIVE SumFirst(_, _)
SumFirst(buf, n) == IF n = 0 THEN 0 ELSE buf[n - 1] + SumFirst(buf, n - 1)

(* C30: while the window still holds every sample seen (the first 100),    *)
(* peakFlow is the largest of them, or 0 before the first; minFlow is      *)
(* positive, it is the smallest positive sample, or 9999 before the first  *)
(* positive one; averageFlow is their arithmetic mean, to within the       *)
(* rounding of the divisions made; and sampleCount is the number of        *)
(* updateStatistics calls, one every 30 s from 30 s after boot.            *)
C30_PeakMinMean ==
    /\ [](sampleCount <= 100 =>
             LET n == sampleCount
                 seen == {flowBuffer[i] : i \in 0..(n - 1)}
                 positive == {f \in seen : f > 0}
                 sum == SumFirst(flowBuffer, n)
             IN  /\ \A f \in seen : peakFlow >= f
                 /\ peakFlow \in seen \cup {0}
                 /\ minFlow > 0
                 /\ \A f \in positive : minFlow <= f
                 /\ minFlow \in positive \cup {9999000}
                 /\ positive = {} => minFlow = 9999000
                 /\ n * averageFlow <= sum
                 /\ sum - n * averageFlow <= (n * (n - 1)) \div 2
                 /\ n <= MaxFreeSamples /\ n > 0 =>
                        sum \div n - averageFlow <= 1)
    /\ [](LET lastRun == tasks[TaskId("UpdateStats")].lastRun
          IN  sampleCount * Ms(30000) =
                  IF lastRun = 0 THEN 0 ELSE lastRun - BootTime)
    /\ [][sampleCount' # sampleCount =>
             /\ sampleCount' = sampleCount + 1
             /\ tasks'[TaskId("UpdateStats")].lastRun = now]_vars

\* Three samples, 2.0, 0 and 0.45 L/min: the peak is 2.0, the minimum 0.45
\* and not 0, the mean 0.816.
C30_Witness ==
    /\ sampleCount = 3
    /\ flowBuffer[0] = 2000 /\ flowBuffer[1] = 0 /\ flowBuffer[2] = 450
    /\ peakFlow = 2000
    /\ minFlow = 450
    /\ averageFlow = 816

-----------------------------------------------------------------------------
(* C31: with the loop iterating and the clock advancing for ever, every    *)
(* dispatched task is executed again and again; a task whose interval has  *)
(* elapsed is executed, at the time of the pass that finds it due, and     *)
(* time does not pass while any task is still due, however many are due in *)
(* the same pass.                                                           *)
C31_SchedulerLiveness ==
    /\ \A m \in LiveTasks :
          []<>(<<tasks'[TaskId(m)].lastRun = now
                   /\ tasks[TaskId(m)].lastRun # now>>_vars)
    /\ \A m \in LiveTasks :
          (tasks[TaskId(m)].enabled
              /\ (now - tasks[TaskId(m)].lastRun) % MillisWrap
                     >= tasks[TaskId(m)].interval)
             ~> (tasks[TaskId(m)].lastRun = now)
    /\ [][now' # now =>
             \A m \in LiveTasks :
                 (now - tasks[TaskId(m)].lastRun) % MillisWrap
                     < tasks[TaskId(m)].interval]_vars

\* After the counter has gone round, a pass has found the three tasks due
\* together: UpdateWaterQuality and UpdateLED have run in it, SaveHistory,
\* registered after them, is about to.
C31_Witness ==
    /\ now < tasks[TaskId("SaveHistory")].lastRun
    /\ tasks[TaskId("UpdateWaterQuality")].lastRun = now
    /\ tasks[TaskId("UpdateLED")].lastRun = now
    /\ Due(tasks[TaskId("SaveHistory")], now)

-----------------------------------------------------------------------------
(* C32: acknowledgeAlert(index) changes nothing but the acknowledged flag  *)
(* of slot index, and nothing at all for an index outside the buffer; a    *)
(* step that changes the alert buffer without inserting, the acknowledge-  *)
(* all handler, sets the acknowledged flag of every slot and leaves every  *)
(* other field and alertIndex alone, so that no active unacknowledged      *)
(* alert remains; and addAlert with the type and message of an active      *)
(* acknowledged record inserts nothing, whatever the severity.             *)
C32_AcknowledgedStillSuppresses ==
    /\ [](\A index \in (0 - 1)..MAX_ALERTS :
             LET s == acknowledgeAlert(Store, index)
             IN  /\ s.alertIndex = alertIndex
                 /\ s.alertCount = alertCount
                 /\ s.events = events
                 /\ \A i \in 0..(MAX_ALERTS - 1) :
                       s.alerts[i] =
                           IF i = index
                              THEN [alerts[i] EXCEPT !.acknowledged = TRUE]
                              ELSE alerts[i])
    /\ [](\A i \in 0..(MAX_ALERTS - 1), severity \in 1..4 :
             alerts[i].active /\ alerts[i].acknowledged =>
                 LET s == addAlert(Store, alerts[i].type, alerts[i].message,
                                   severity)
                 IN  /\ s.alerts = alerts
                     /\ s.alertIndex = alertIndex
                     /\ s.alertCount = alertCount
                     /\ s.eventCount = eventCount)
    /\ [][alerts' # alerts /\ alertCount' = alertCount =>
             /\ alertIndex' = alertIndex
             /\ \A i \in 0..(MAX_ALERTS - 1) :
                   /\ alerts'[i] = [alerts[i] EXCEPT !.acknowledged = TRUE]
                   /\ ~(alerts'[i].active /\ ~alerts'[i].acknowledged)]_vars

\* The operator has acknowledged a leak alert; checkAlerts has since called
\* addAlert with the same type and message, and nothing was inserted.
C32_Witness ==
    /\ opCommands > 0
    /\ \E i \in 0..(MAX_ALERTS - 1), k \in 1..Len(calls) :
          /\ alerts[i].active /\ alerts[i].acknowledged
          /\ alerts[i].type = "Leak"
          /\ alerts[i].timestamp < now
          /\ calls[k].type = alerts[i].type
          /\ calls[k].message = alerts[i].message
          /\ ~calls[k].inserted
    /\ \A i \in 0..(MAX_ALERTS - 1) :
          alerts[i].active => alerts[i].acknowledged

-----------------------------------------------------------------------------
(* C33: in every reachable state the usage totals are ordered by the       *)
(* length of their period: dailyLitres <= weeklyLitres <= monthlyLitres    *)
(* <= yearlyLitres.                                                        *)
C33_GranularityOrder ==
    /\ dailyLitres <= weeklyLitres
    /\ weeklyLitres <= monthlyLitres
    /\ monthlyLitres <= yearlyLitres

-----------------------------------------------------------------------------
(* C34: in every reachable state the five percentiles are in ascending     *)
(* order, flowPercentiles[0] <= [1] <= [2] <= [3] <= [4] in the code's     *)
(* numbering, from the initial zeros through every recomputation.          *)
C34_PercentilesOrdered ==
    \A p \in 1..4 : flowPercentiles[p] <= flowPercentiles[p + 1]

\* The window has been filled with 100 different rates and the percentiles
\* computed from it are five different values; a later sample has been
\* stored since.
C34_Witness ==
    /\ sampleCount > 100
    /\ \A p \in 1..4 : flowPercentiles[p] < flowPercentiles[p + 1]
    /\ flowPercentiles[1] > 0

=============================================================================
